---- MODULE Spec2Model ----
(***************************************************************************)
(* Model of the durable event pipeline of cc-discord-bot:                  *)
(*   - SqliteEventBus (scripts/src/core/event-bus.ts): the events table,   *)
(*     the dm_messages table and the dm_offsets table, with the store's    *)
(*     operations as operators over the tables;                            *)
(*   - the event runtime (scripts/src/adapters/config-adapter.ts, the      *)
(*     event-runtime part): the worker loop and the handlers, one action   *)
(*     per synchronous segment between two awaits;                         *)
(*   - the platform callback of the discord adapter (unnamed/part_000).    *)
(* Times are milliseconds, as in the source.  An event id is the row's     *)
(* position in the table (randomUUID() is unique per insert).              *)
(***************************************************************************)
EXTENDS Integers, Sequences, FiniteSets, TLC

VARIABLES
    events,      \* events table: sequence of rows, id = index
    now,         \* Date.now()
    dm,          \* dm_messages table: message id -> row
    offset,      \* dm_offsets row of the scope dm_user:<the allowed user>
    channel,     \* platform: the DM channel's messages, message id = index
    sent,        \* platform: chunks delivered to the user, <<outbound event id, chunk, nth time>>
    procUp,      \* the daemon process is running
    ready,       \* client.isReady()
    pc,          \* worker loop: the await the dispatched handler is suspended at
    cur,         \* worker loop: id of the event being handled (0: none)
    frame,       \* worker loop: the handler's local variables
    env,         \* environment interventions still allowed
    faultsLeft,  \* failing platform / agent calls still allowed
    missed,      \* history: ids of the eligible DMs sent while the gateway was not delivering,
                 \* with an offset stored and no recovery run in flight
    busHeld,     \* SpecBus: worker -> id of the event claim_next last returned to it (0: none)
    busOps,      \* SpecBus: number of store calls and clock steps made
    holders,     \* history: id -> workers that were returned the row since its last release
    offsetRow,   \* SpecOffset: dm_offsets rows of one scope (none or one), ids as text
    offsetCalls, \* SpecOffset: the ids passed to updateDmOffset so far
    claudeQueue,        \* SpecFifo: the parked jobs, a job is its submission number
    queueWorkerRunning, \* SpecFifo: the flag of runQueue
    agentInFlight,      \* SpecFifo: the agent-CLI processes running, <<job, attempt>>
    agentStarted,       \* history: the jobs in the order runClaudeCommand was called for them
    agentSettled,       \* history: job -> "pending", "resolved" or "rejected"
    conn,        \* SpecConn: the connection manager's closure variables, the client's
                 \* state and the positions of start() and runReconnectLoop()
    connEnv,     \* SpecConn: gateway events and outside calls still allowed
    wrap,        \* SpecWrap: one call of runWithEmptyResponseRetry: its options, its
                 \* locals, its position, and the calls of runner and sleep it made
    mainSession, \* SpecReset: the main session file holds a session id
    directSent,  \* SpecReset: platform: ids of the DMs that were answered with the
                 \* reset confirmation by channel.send, in the order of the sends
    fmt,         \* SpecSend: one run of handleOutboundDmRequest: the request, the
                 \* chunks of its text, and the messages handed to the platform
    delays,      \* SpecDelay: the arguments and the results of a call of
                 \* calculateBackoffMs and of a call of calculateReconnectDelayMs
    claude       \* SpecSandbox: claude-adapter.ts: the sandbox id in memory and on
                 \* disk, the session file, the sandboxes of the host, and one
                 \* call of runClaudeCommand: its locals, its position, its counts

daemonVars == <<dm, offset, channel, sent, procUp, ready, pc, cur, frame, env, faultsLeft, missed>>
busOnlyVars == <<busHeld, busOps, holders>>
offsetVars == <<offsetRow, offsetCalls>>
fifoVars == <<claudeQueue, queueWorkerRunning, agentInFlight, agentStarted, agentSettled>>
connVars == <<conn, connEnv>>
pureVars == <<wrap, fmt, delays, claude>>
unitVars == <<pureVars, mainSession, directSent>>
extVars == <<offsetVars, fifoVars, connVars, unitVars>>
vars == <<events, now, dm, offset, channel, sent, procUp, ready, pc, cur, frame, env,
          faultsLeft, missed, busHeld, busOps, holders, offsetRow, offsetCalls,
          claudeQueue, queueWorkerRunning, agentInFlight, agentStarted, agentSettled,
          conn, connEnv, wrap, mainSession, directSent, fmt, delays, claude>>

-----------------------------------------------------------------------------
(* Bounds of the model *)

MaxBusOps == 7
MaxEnv == 2
MaxFaults == 1
MaxRecoveryEnv == 4
MaxRetryEnv == 1
MaxLiveEnv == 2
MaxLiveFaults == 1
MaxIdLen == 2
MaxOffsetCalls == 3

-----------------------------------------------------------------------------
(* SQL NULL / JS undefined *)

NULL == "null"

\* an option that was not given is <<>>, one that was given is <<value>>
Undefined == <<>>

NoTime == -1

Lanes == {"interactive", "recovery", "scheduled", "system"}

\* laneRank(lane) and the CASE of claimNext's ORDER BY
laneRank(lane) ==
    CASE lane = "interactive" -> 0
      [] lane = "recovery" -> 1
      [] lane = "scheduled" -> 2
      [] OTHER -> 3

Max(a, b) == IF a >= b THEN a ELSE b
Min(a, b) == IF a <= b THEN a ELSE b

RECURSIVE Pow2(_)
Pow2(n) == IF n <= 0 THEN 1 ELSE 2 * Pow2(n - 1)

\* a backoff whose exponent is capped too early
calculateBackoffMs_CapAtFive(attempt) ==
    IF attempt <= 1 THEN 1000
    ELSE Min(1000 * Pow2(Min(attempt, 5) - 1), 60000)

\* SqliteEventBus.calculateBackoffMs
calculateBackoffMs(attempt) ==
    IF attempt <= 1 THEN 1000
    ELSE Min(1000 * Pow2(Min(attempt, 10) - 1), 60000)

Ids(ev) == 1..Len(ev)

\* JS truthiness of input.dedupeKey: undefined and "" are falsy
Truthy(key) == key # NULL /\ key # ""

\* an events table without the unique index on dedupe_key
InsertFails_NoIndex(ev, input) == FALSE

\* publish(): the INSERT of a 'pending' row; idx_events_dedupe is unique
\* over the rows whose dedupe_key IS NOT NULL.
InsertFails(ev, input) ==
    /\ input.dedupeKey # NULL
    /\ \E i \in Ids(ev) : ev[i].dedupe_key = input.dedupeKey

NewRow(input, t) ==
    [ type |-> input.type,
      lane |-> input.lane,
      priority |-> input.priority,
      payload |-> input.payload,
      status |-> "pending",
      attempt_count |-> 0,
      available_at |-> IF input.availableAt = NoTime THEN t ELSE input.availableAt,
      locked_by |-> NULL,
      locked_at |-> NoTime,
      last_error |-> NULL,
      dedupe_key |-> input.dedupeKey,
      created_at |-> t ]

\* publish(input): the table after the call, the id returned (0 when it
\* throws) and whether it throws.
publish(ev, input, t) ==
    IF ~InsertFails(ev, input)
    THEN [events |-> Append(ev, NewRow(input, t)), id |-> Len(ev) + 1, thrown |-> FALSE]
    ELSE IF ~Truthy(input.dedupeKey)
         THEN [events |-> ev, id |-> 0, thrown |-> TRUE]
         ELSE [events |-> ev,
               id |-> CHOOSE i \in Ids(ev) : ev[i].dedupe_key = input.dedupeKey,
               thrown |-> FALSE]

\* a claim query without the status condition
Claimable_AnyStatus(ev, t) ==
    {i \in Ids(ev) : ev[i].available_at <= t}

\* a claim query that forgets to exclude locked rows
Claimable_AlsoProcessing(ev, t) ==
    {i \in Ids(ev) : ev[i].status \in {"pending", "retry", "processing"} /\ ev[i].available_at <= t}

\* claimNext: WHERE status IN ('pending','retry') AND available_at <= now
Claimable(ev, t) ==
    {i \in Ids(ev) : ev[i].status \in {"pending", "retry"} /\ ev[i].available_at <= t}

\* an ORDER BY with priority ASC
OrderedBefore_PriorityAsc(r1, r2) ==
    \/ laneRank(r1.lane) < laneRank(r2.lane)
    \/ /\ laneRank(r1.lane) = laneRank(r2.lane)
       /\ r1.priority < r2.priority
    \/ /\ laneRank(r1.lane) = laneRank(r2.lane)
       /\ r1.priority = r2.priority
       /\ r1.created_at < r2.created_at

\* claimNext: ORDER BY lane rank ASC, priority DESC, created_at ASC
OrderedBefore(r1, r2) ==
    \/ laneRank(r1.lane) < laneRank(r2.lane)
    \/ /\ laneRank(r1.lane) = laneRank(r2.lane)
       /\ r1.priority > r2.priority
    \/ /\ laneRank(r1.lane) = laneRank(r2.lane)
       /\ r1.priority = r2.priority
       /\ r1.created_at < r2.created_at

\* claimNext: the rows that can come first in the ordered SELECT (SQL leaves
\* the order of rows equal in all three keys open); inside the transaction
\* the conditional UPDATE of the first row always changes one row.
ClaimFirst(ev, t) ==
    {i \in Claimable(ev, t) : \A j \in Claimable(ev, t) : ~OrderedBefore(ev[j], ev[i])}

\* claimNext: the conditional UPDATE ... WHERE id = ? AND status IN ('pending','retry')
ClaimUpdate(ev, id, workerId, t) ==
    IF ev[id].status \in {"pending", "retry"}
    THEN [ev EXCEPT ![id].status = "processing",
                    ![id].locked_by = workerId,
                    ![id].locked_at = t]
    ELSE ev

markDone(ev, id) ==
    [ev EXCEPT ![id].status = "done", ![id].locked_by = NULL, ![id].locked_at = NoTime]

markRetry(ev, id, err, delayMs, t) ==
    [ev EXCEPT ![id].status = "retry",
               ![id].attempt_count = @ + 1,
               ![id].available_at = t + Max(0, delayMs),
               ![id].last_error = err,
               ![id].locked_by = NULL,
               ![id].locked_at = NoTime]

markDead(ev, id, err) ==
    [ev EXCEPT ![id].status = "dead",
               ![id].attempt_count = @ + 1,
               ![id].last_error = err,
               ![id].locked_by = NULL,
               ![id].locked_at = NoTime]

\* a staleBefore computed without the one-second floor
Stale_NoFloor(ev, lockTimeoutMs, t) ==
    {i \in Ids(ev) : /\ ev[i].status = "processing"
                     /\ ev[i].locked_at # NoTime
                     /\ ev[i].locked_at < t - lockTimeoutMs}

\* requeueStaleProcessing: WHERE status='processing' AND locked_at IS NOT NULL AND locked_at < staleBefore
Stale(ev, lockTimeoutMs, t) ==
    {i \in Ids(ev) : /\ ev[i].status = "processing"
                     /\ ev[i].locked_at # NoTime
                     /\ ev[i].locked_at < t - Max(1000, lockTimeoutMs)}

\* a worker loop that never requeues stale locks
requeueStaleProcessing_Never(ev, lockTimeoutMs, t) == ev

\* the UPDATE of requeueStaleProcessing applied to the rows `ids`
RECURSIVE RequeueRows(_, _, _)
RequeueRows(ev, ids, t) ==
    IF ids = {} THEN ev
    ELSE LET i == CHOOSE x \in ids : TRUE IN
         RequeueRows([ev EXCEPT ![i].status = "retry",
                                ![i].available_at = t,
                                ![i].locked_by = NULL,
                                ![i].locked_at = NoTime,
                                ![i].last_error =
                                    IF @ = NULL THEN "stale_processing_requeued" ELSE @],
                     ids \ {i}, t)

requeueStaleProcessing(ev, lockTimeoutMs, t) ==
    RequeueRows(ev, Stale(ev, lockTimeoutMs, t), t)

-----------------------------------------------------------------------------
(* dm_messages and dm_offsets *)

NoOffset == -1

NewDmRow ==
    [eye_applied |-> FALSE, processing_done |-> FALSE, check_applied |-> FALSE,
     terminal_failed |-> FALSE, last_error |-> NULL]

\* an upsert that replaces the row it finds (INSERT OR REPLACE)
upsertDmMessage_Replace(d, m) ==
    IF m \in DOMAIN d THEN [d EXCEPT ![m] = NewDmRow]
    ELSE d @@ (m :> NewDmRow)

\* upsertDmMessage: INSERT ... ON CONFLICT(message_id) DO UPDATE SET channel_id,
\* author_id, updated_at (the flags and last_error of an existing row stay)
upsertDmMessage(d, m) ==
    IF m \in DOMAIN d THEN d
    ELSE d @@ (m :> NewDmRow)

\* the UPDATE ... WHERE message_id = ? statements change no row when there is none
markEyeApplied(d, m) ==
    IF m \in DOMAIN d
    THEN [d EXCEPT ![m].eye_applied = TRUE, ![m].last_error = NULL] ELSE d

markProcessingDone(d, m) ==
    IF m \in DOMAIN d
    THEN [d EXCEPT ![m].processing_done = TRUE, ![m].last_error = NULL] ELSE d

markCheckApplied(d, m) ==
    IF m \in DOMAIN d
    THEN [d EXCEPT ![m].check_applied = TRUE, ![m].last_error = NULL] ELSE d

markDmTerminalFailure(d, m, err) ==
    IF m \in DOMAIN d
    THEN [d EXCEPT ![m].terminal_failed = TRUE, ![m].last_error = err] ELSE d

setDmLastError(d, m, err) ==
    IF m \in DOMAIN d THEN [d EXCEPT ![m].last_error = err] ELSE d

\* listDmMissingEye / listDmMissingCheck (LIMIT 50 is never reached here)
listDmMissingEye(d) ==
    {m \in DOMAIN d : ~d[m].eye_applied /\ ~d[m].terminal_failed}

listDmMissingCheck(d) ==
    {m \in DOMAIN d : d[m].processing_done /\ ~d[m].check_applied /\ ~d[m].terminal_failed}

\* snowflakeToBigInt: the ids of the model are decimal snowflakes, BigInt(value) is their number
snowflakeToBigInt(id) == id

\* updateDmOffset: no write when the new id is not above the stored one
updateDmOffset(off, messageId) ==
    IF off # NoOffset /\ snowflakeToBigInt(messageId) <= snowflakeToBigInt(off)
    THEN off
    ELSE messageId

hasActiveDmIncomingEvent(ev, m) ==
    \E i \in Ids(ev) : /\ ev[i].type = "dm.incoming"
                       /\ ev[i].status \in {"pending", "processing", "retry"}
                       /\ ev[i].payload.messageId = m

\* the handler's locals when no handler is running
NoFrame == [eye |-> FALSE, i |-> 0, cursor |-> NoOffset]

\* The daemon's variables in a specification that only exercises the store
DaemonOff ==
    /\ dm = <<>>
    /\ offset = NoOffset
    /\ channel = <<>>
    /\ sent = {}
    /\ procUp = FALSE
    /\ ready = FALSE
    /\ pc = "idle"
    /\ cur = 0
    /\ frame = NoFrame
    /\ env = 0
    /\ faultsLeft = 0
    /\ missed = {}

\* the variables of the component specifications, in a specification that
\* does not exercise them
OffsetOff ==
    /\ offsetRow = <<>>
    /\ offsetCalls = <<>>

FifoOff ==
    /\ claudeQueue = <<>>
    /\ queueWorkerRunning = FALSE
    /\ agentInFlight = {}
    /\ agentStarted = <<>>
    /\ agentSettled = <<>>

\* the ids of the waitUntilReady calls: the one of runReconnectLoop, the
\* one of start(), and two outside callers (the worker loop of the runtime)
WaiterIds == {"loop", "start", "c1", "c2"}

\* createDiscordConnectionManager: the closure variables as declared, a
\* client that is not logged in, no call in progress.  reconnectPromise and
\* reconnectReason are kept as "is not null".
NewConn ==
    [started |-> FALSE, stopping |-> FALSE, attempt |-> 0,
     reconnectPromise |-> FALSE, reconnectReason |-> FALSE,
     forceReconnectRequested |-> FALSE, consecutiveHighPingCount |-> 0,
     waiters |-> {}, timers |-> {},
     ready |-> FALSE, connecting |-> FALSE,
     startPc |-> "none", loopPc |-> "none", forceCurrentCycle |-> FALSE,
     waitResult |-> ("loop" :> "none") @@ ("start" :> "none") @@
                    ("c1" :> "none") @@ ("c2" :> "none")]

ConnOff ==
    /\ conn = NewConn
    /\ connEnv = 0

\* no call of runWithEmptyResponseRetry has been made
NoWrap ==
    [pc |-> "none", optMaxRetries |-> <<>>, maxRetries |-> 0, delayMs |-> 0,
     attempt |-> 0, lastResult |-> <<>>, calls |-> <<>>, sleeps |-> <<>>,
     trace |-> <<>>, returned |-> <<>>]

\* neither delay function has been called
NoDelays == [backoffAttempt |-> 0, backoff |-> NoTime, reconnectAttempt |-> 0, reconnect |-> NoTime]

\* no outbound request is being delivered
NoSend ==
    [pc |-> "none", source |-> "none", target |-> "none", text |-> <<>>, files |-> 0,
     chunks |-> <<>>, i |-> 0, sends |-> <<>>]

\* no sandbox, no session, no call of runClaudeCommand
NoClaude ==
    [enableSandbox |-> TRUE, cachedSandboxId |-> 0, diskSandboxId |-> 0, session |-> FALSE,
     conflicting |-> FALSE, pc |-> "none", retried |-> FALSE, sessionId |-> FALSE,
     creations |-> 0, runs |-> 0, error |-> "none", result |-> "none", calls |-> 0]

UnitOff ==
    /\ wrap = NoWrap
    /\ mainSession = FALSE
    /\ directSent = <<>>
    /\ fmt = NoSend
    /\ delays = NoDelays
    /\ claude = NoClaude

ExtOff ==
    /\ OffsetOff
    /\ FifoOff
    /\ ConnOff
    /\ UnitOff

-----------------------------------------------------------------------------
(* The event runtime: constants, payloads and the handlers' segments.  A   *)
(* segment returns the configuration the worker is left in:                *)
(*   [ev: events table, d: dm_messages, pc, cur, frame].                   *)

MAX_ATTEMPTS == 20
STALE_LOCK_TIMEOUT_MS == 120000
SCHEDULER_EVENT_TTL_MS == 15 * 60 * 1000

workerId == "runtime-pid"

DmIncomingPayload(m) == [messageId |-> m]

ReplyRequestId(m) == ToString(m) \o ":reply"
ErrorRequestId(m) == ToString(m) \o ":error"
ScheduleRequestId(name, triggeredAt) == "schedule:" \o name \o ":" \o ToString(triggeredAt)

\* the text of an outbound request is kept as the number of chunks of splitMessage(text)
OutboundPayload(requestId, source, chunks) ==
    [requestId |-> requestId, source |-> source, chunks |-> chunks]

\* enqueueReconcile
ReconcileInput(reason, t) ==
    [type |-> "dm.reconcile.run", lane |-> "system", priority |-> 0 - 1,
     payload |-> [reason |-> reason, triggeredAt |-> t],
     dedupeKey |-> NULL, availableAt |-> NoTime]

\* enqueueRecovery (main.ts)
RecoveryInput(reason, t) ==
    [type |-> "dm.recover.run", lane |-> "recovery", priority |-> 10,
     payload |-> [reason |-> reason, triggeredAt |-> t],
     dedupeKey |-> NULL, availableAt |-> NoTime]

\* enqueueDmIncoming, and the publish of the messageCreate callback
DmIncomingInput(m, lane, priority) ==
    [type |-> "dm.incoming", lane |-> lane, priority |-> priority,
     payload |-> DmIncomingPayload(m), dedupeKey |-> NULL, availableAt |-> NoTime]

\* processDmMessage: the reply request
ReplyInput(m, chunks) ==
    [type |-> "outbound.dm.request", lane |-> "interactive", priority |-> 20,
     payload |-> OutboundPayload(ReplyRequestId(m), "dm_reply", chunks),
     dedupeKey |-> "outbound:" \o ToString(m) \o ":reply", availableAt |-> NoTime]

\* processDmMessage: the error notice
ErrorInput(m) ==
    [type |-> "outbound.dm.request", lane |-> "interactive", priority |-> 25,
     payload |-> OutboundPayload(ErrorRequestId(m), "dm_reply", 1),
     dedupeKey |-> "outbound:" \o ToString(m) \o ":error", availableAt |-> NoTime]

\* handleSchedulerTriggered: the notification request
ScheduleOutboundInput(name, triggeredAt, chunks) ==
    [type |-> "outbound.dm.request", lane |-> "scheduled", priority |-> 0,
     payload |-> OutboundPayload(ScheduleRequestId(name, triggeredAt), "scheduler", chunks),
     dedupeKey |-> "outbound:schedule:" \o name \o ":" \o ToString(triggeredAt),
     availableAt |-> NoTime]

\* startSchedulerWithPublisher and the publisher of main.ts
SchedulerTriggeredInput(name, t) ==
    [type |-> "scheduler.triggered", lane |-> "scheduled", priority |-> 0,
     payload |-> [scheduleName |-> name, triggeredAt |-> t,
                  expiresAt |-> t + SCHEDULER_EVENT_TTL_MS],
     dedupeKey |-> NULL, availableAt |-> NoTime]

\* an enqueue that does not look for an active event of the message
enqueueDmIncomingIfIdle_Always(ev, m, lane, priority, t) ==
    publish(ev, DmIncomingInput(m, lane, priority), t).events

\* enqueueDmIncomingIfIdle
enqueueDmIncomingIfIdle(ev, m, lane, priority, t) ==
    IF hasActiveDmIncomingEvent(ev, m) THEN ev
    ELSE publish(ev, DmIncomingInput(m, lane, priority), t).events

SetMin(S) == CHOOSE x \in S : \A y \in S : x <= y

\* the for-loops of handleReconcileRun and handleRecoveryRun over the listed
\* messages (ids are fresh UUIDs, so the order of the publishes is not observable)
RECURSIVE EnqueueEach(_, _, _, _, _)
EnqueueEach(ev, ms, lane, priority, t) ==
    IF ms = {} THEN ev
    ELSE LET m == SetMin(ms) IN
         EnqueueEach(enqueueDmIncomingIfIdle(ev, m, lane, priority, t),
                     ms \ {m}, lane, priority, t)

Conf(ev, d, p, c, f) == [ev |-> ev, d |-> d, pc |-> p, cur |-> c, frame |-> f]

\* runWorkerLoop: handleEvent returned, markDone
Finish(ev, d, id) == Conf(markDone(ev, id), d, "idle", 0, NoFrame)

markDmTerminalFailureIfNeeded(d, m, err) ==
    IF m \in DOMAIN d /\ d[m].terminal_failed THEN d
    ELSE markDmTerminalFailure(d, m, err)

settleDmIncomingTerminalFailure(row, d, err) ==
    IF row.type # "dm.incoming" THEN d
    ELSE markDmTerminalFailureIfNeeded(upsertDmMessage(d, row.payload.messageId),
                                       row.payload.messageId, err)

\* the delayMs of the RetryableEventError instances the runtime throws: each
\* is constructed from a message alone
RetryableDelayMs == Undefined

\* a retry delay that does not grow with the attempts
retryDelayMs_Flat(delayMs, attemptNumber) == 1000

\* runWorkerLoop: error instanceof RetryableEventError && error.delayMs
\*                    ? error.delayMs : calculateBackoffMs(attemptNumber)
retryDelayMs(delayMs, attemptNumber) ==
    IF delayMs # Undefined /\ delayMs[1] # 0 THEN delayMs[1]
    ELSE calculateBackoffMs(attemptNumber)

\* a worker loop that retries every failure until the attempts are used up
WorkerCatch_RetryAll(ev, d, id, kind, t) ==
    LET attemptNumber == ev[id].attempt_count + 1 IN
    IF attemptNumber >= MAX_ATTEMPTS
    THEN Conf(markDead(ev, id, "max attempts reached"), d, "idle", 0, NoFrame)
    ELSE Conf(markRetry(ev, id, "retryable", calculateBackoffMs(attemptNumber), t),
              d, "idle", 0, NoFrame)

\* runWorkerLoop: the catch block.  kind is the class of the error thrown by
\* handleEvent: "TerminalEventError", "DiscordTerminal" (an error carrying a
\* terminal platform code) or "Other" (RetryableEventError included; no
\* RetryableEventError of the runtime carries a delayMs).
WorkerCatch(ev, d, id, kind, t) ==
    LET attemptNumber == ev[id].attempt_count + 1 IN
    IF kind \in {"TerminalEventError", "DiscordTerminal"}
    THEN Conf(markDead(ev, id, "terminal"),
              settleDmIncomingTerminalFailure(ev[id], d, "terminal"),
              "idle", 0, NoFrame)
    ELSE IF attemptNumber >= MAX_ATTEMPTS
         THEN Conf(markDead(ev, id, "max attempts reached"), d, "idle", 0, NoFrame)
         ELSE Conf(markRetry(ev, id, "retryable",
                             retryDelayMs(RetryableDelayMs, attemptNumber), t),
                   d, "idle", 0, NoFrame)

\* handleDmIncoming: the outer catch.  kind is "terminal" or "retryable"
\* (classifyDmIncomingError); it rethrows a TerminalEventError or a
\* RetryableEventError to the worker loop.
DmCatch(ev, d, id, m, kind, t) ==
    LET d1 == setDmLastError(d, m, kind) IN
    IF kind = "terminal"
    THEN WorkerCatch(ev, markDmTerminalFailureIfNeeded(d1, m, "terminal"), id,
                     "TerminalEventError", t)
    ELSE WorkerCatch(ev, d1, id, "Other", t)

\* handleDmIncoming from postProcessing on: the check reaction
SegCheck(ev, d, id, m) ==
    IF m \notin DOMAIN d \/ d[m].terminal_failed \/ d[m].check_applied
    THEN Finish(ev, d, id)
    ELSE Conf(ev, d, "dm_check", id, NoFrame)

\* a handler that processes the message whatever processing_done says
SegProcess_NoGate(ev, d, id, m) ==
    IF m \notin DOMAIN d \/ d[m].terminal_failed
    THEN Finish(ev, d, id)
    ELSE Conf(ev, d, "dm_agent", id, NoFrame)

\* a handler that applies the check reaction without processing the message
SegProcess_CheckOnly(ev, d, id, m) ==
    IF m \notin DOMAIN d \/ d[m].terminal_failed
    THEN Finish(ev, d, id)
    ELSE SegCheck(ev, d, id, m)

\* handleDmIncoming from refreshed on: the processing gate
SegProcess(ev, d, id, m) ==
    IF m \notin DOMAIN d \/ d[m].terminal_failed
    THEN Finish(ev, d, id)
    ELSE IF ~d[m].processing_done
         THEN Conf(ev, d, "dm_agent", id, NoFrame)
         ELSE SegCheck(ev, d, id, m)

\* a handler that does not look at terminal_failed when it is dispatched
SegDmStart_NoTerminalGate(ev, d, id, m) ==
    LET d1 == upsertDmMessage(d, m) IN
    Conf(ev, d1, "dm_fetch", id, [NoFrame EXCEPT !.eye = d1[m].eye_applied])

\* handleDmIncoming up to the await of fetchDmMessage
SegDmStart(ev, d, id, m) ==
    LET d1 == upsertDmMessage(d, m) IN
    IF d1[m].terminal_failed
    THEN Finish(ev, d1, id)
    ELSE Conf(ev, d1, "dm_fetch", id, [NoFrame EXCEPT !.eye = d1[m].eye_applied])

\* handleReconcileRun (no await: the whole handler)
handleReconcileRun(ev, d, t) ==
    LET missingEye == listDmMissingEye(d)
        missingCheck == listDmMissingCheck(d)
        ev1 == EnqueueEach(ev, missingEye, "interactive", 15, t)
    IN EnqueueEach(ev1, missingCheck, "interactive", 15, t)

\* a dispatch that still runs a trigger at the instant it expires
Dispatch_ExpiredLate(ev, d, id, off, t) ==
    LET row == ev[id] IN
    CASE row.type = "dm.incoming" -> SegDmStart(ev, d, id, row.payload.messageId)
      [] row.type = "outbound.dm.request" ->
            Conf(ev, d, "out_send", id, [NoFrame EXCEPT !.i = 1])
      [] row.type = "scheduler.triggered" ->
            IF row.payload.expiresAt < t THEN Finish(ev, d, id)
            ELSE Conf(ev, d, "sched_agent", id, NoFrame)
      [] row.type = "dm.recover.run" ->
            Conf(ev, d, "rec_fetch", id, [NoFrame EXCEPT !.cursor = off])
      [] row.type = "dm.reconcile.run" ->
            Finish(handleReconcileRun(ev, d, t), d, id)
      [] OTHER -> WorkerCatch(ev, d, id, "TerminalEventError", t)

\* handleEvent up to the first await of the handler
Dispatch(ev, d, id, off, t) ==
    LET row == ev[id] IN
    CASE row.type = "dm.incoming" -> SegDmStart(ev, d, id, row.payload.messageId)
      [] row.type = "outbound.dm.request" ->
            Conf(ev, d, "out_send", id, [NoFrame EXCEPT !.i = 1])
      [] row.type = "scheduler.triggered" ->
            IF row.payload.expiresAt <= t THEN Finish(ev, d, id)
            ELSE Conf(ev, d, "sched_agent", id, NoFrame)
      [] row.type = "dm.recover.run" ->
            Conf(ev, d, "rec_fetch", id, [NoFrame EXCEPT !.cursor = off])
      [] row.type = "dm.reconcile.run" ->
            Finish(handleReconcileRun(ev, d, t), d, id)
      [] OTHER -> WorkerCatch(ev, d, id, "TerminalEventError", t)

-----------------------------------------------------------------------------
(* SpecBus: the store's queue operations called by concurrent clients.  A  *)
(* worker claims a row, then settles it with mark_done, mark_retry or      *)
(* mark_dead; anyone may publish, requeue stale locks, or let time pass.   *)

Workers == {"w1", "w2"}

BusPayload(n) == [messageId |-> n]

BusInput(lane, priority, key, n, at) ==
    [type |-> "dm.incoming", lane |-> lane, priority |-> priority,
     payload |-> BusPayload(n), dedupeKey |-> key, availableAt |-> at]

\* The publish inputs tried: every lane, two priorities, no key / the empty
\* key / a proper key (published with differing payloads), and a publish
\* with a caller-supplied future available_at.
BusInputs(t) ==
    {BusInput("interactive", 0, NULL, 1, NoTime),
     BusInput("interactive", 20, "k1", 1, NoTime),
     BusInput("system", 0, "k1", 2, NoTime),
     BusInput("scheduled", 0, "", 1, NoTime),
     BusInput("recovery", 5, NULL, 1, t + 1000)}

BusLockTimeouts == {500, 2000}

RECURSIVE ReleaseAll(_, _)
ReleaseAll(h, ids) ==
    IF ids = {} THEN h
    ELSE LET i == CHOOSE x \in ids : TRUE IN ReleaseAll([h EXCEPT ![i] = {}], ids \ {i})

\* every SpecBus step is one call, counted against the budget
BusOp == busOps < MaxBusOps /\ busOps' = busOps + 1

BusPublish(input) ==
    /\ BusOp
    /\ LET r == publish(events, input, now) IN
        /\ events' = r.events
        /\ holders' = IF Len(r.events) > Len(events) THEN Append(holders, {}) ELSE holders
    /\ UNCHANGED <<now, busHeld, daemonVars, extVars>>

BusClaimNext(w) ==
    /\ BusOp
    /\ busHeld[w] = 0
    /\ \/ /\ ClaimFirst(events, now) = {}
          /\ UNCHANGED <<events, busHeld, holders>>
       \/ \E id \in ClaimFirst(events, now) :
            /\ events' = ClaimUpdate(events, id, w, now)
            /\ busHeld' = [busHeld EXCEPT ![w] = id]
            /\ holders' = [holders EXCEPT ![id] = @ \cup {w}]
    /\ UNCHANGED <<now, daemonVars, extVars>>

BusMarkDone(w) ==
    /\ BusOp
    /\ busHeld[w] # 0
    /\ events' = markDone(events, busHeld[w])
    /\ holders' = [holders EXCEPT ![busHeld[w]] = {}]
    /\ busHeld' = [busHeld EXCEPT ![w] = 0]
    /\ UNCHANGED <<now, daemonVars, extVars>>

BusMarkRetry(w, delayMs) ==
    /\ BusOp
    /\ busHeld[w] # 0
    /\ events' = markRetry(events, busHeld[w], "retryable", delayMs, now)
    /\ holders' = [holders EXCEPT ![busHeld[w]] = {}]
    /\ busHeld' = [busHeld EXCEPT ![w] = 0]
    /\ UNCHANGED <<now, daemonVars, extVars>>

BusMarkDead(w) ==
    /\ BusOp
    /\ busHeld[w] # 0
    /\ events' = markDead(events, busHeld[w], "terminal")
    /\ holders' = [holders EXCEPT ![busHeld[w]] = {}]
    /\ busHeld' = [busHeld EXCEPT ![w] = 0]
    /\ UNCHANGED <<now, daemonVars, extVars>>

BusRequeueStale(lockTimeoutMs) ==
    /\ BusOp
    /\ Stale(events, lockTimeoutMs, now) # {}
    /\ events' = requeueStaleProcessing(events, lockTimeoutMs, now)
    /\ holders' = ReleaseAll(holders, Stale(events, lockTimeoutMs, now))
    /\ UNCHANGED <<now, busHeld, daemonVars, extVars>>

\* Time passes, in steps just over the smallest effective lock timeout
\* (Math.max(1_000, lockTimeoutMs)) and the first backoff delay.
BusTickMs == 1000 + 1

BusTick ==
    /\ BusOp
    /\ now' = now + BusTickMs
    /\ UNCHANGED <<events, busHeld, holders, daemonVars, extVars>>

InitBus ==
    /\ events = <<>>
    /\ now = 0
    /\ busHeld = [w \in Workers |-> 0]
    /\ holders = <<>>
    /\ busOps = 0
    /\ DaemonOff
    /\ ExtOff

NextBus ==
    \/ \E input \in BusInputs(now) : BusPublish(input)
    \/ \E w \in Workers : BusClaimNext(w)
    \/ \E w \in Workers : BusMarkDone(w)
    \/ \E w \in Workers, d \in {0, 1000} : BusMarkRetry(w, d)
    \/ \E w \in Workers : BusMarkDead(w)
    \/ \E lt \in BusLockTimeouts : BusRequeueStale(lt)
    \/ BusTick

SpecBus == InitBus /\ [][NextBus]_vars

-----------------------------------------------------------------------------
(* Claims about the store, checked under SpecBus *)

RowsWithKey(ev, key) == {i \in Ids(ev) : ev[i].dedupe_key = key}

\* C5 (as claimed): for ANY dedupe key k already carried by a row, whatever
\* the row's status, a further publish with k raises no error, returns the
\* id of the row first published with k, inserts no row and leaves the
\* table as it is.
C5_RepublishAnyKey ==
    \A input \in BusInputs(now) :
        (input.dedupeKey # NULL /\ RowsWithKey(events, input.dedupeKey) # {}) =>
            LET r == publish(events, input, now) IN
            /\ ~r.thrown
            /\ RowsWithKey(events, input.dedupeKey) = {r.id}
            /\ r.events = events

\* C5 restricted to non-empty keys (the keys the daemon itself publishes):
\* the same statement holds.
C5_RepublishNonEmptyKey ==
    \A input \in BusInputs(now) :
        (input.dedupeKey \notin {NULL, ""} /\ RowsWithKey(events, input.dedupeKey) # {}) =>
            LET r == publish(events, input, now) IN
            /\ ~r.thrown
            /\ RowsWithKey(events, input.dedupeKey) = {r.id}
            /\ r.events = events

\* C6: a row is returned by claim_next to at most one worker between two
\* releases (mark_*, stale-lock requeue): the workers that were returned a
\* row since its last release are at most one, the row is then in
\* processing and that worker is its lock holder.
C6_SingleHolder ==
    \A i \in Ids(events) :
        /\ Cardinality(holders[i]) <= 1
        /\ holders[i] # {} =>
              /\ events[i].status = "processing"
              /\ events[i].locked_by \in holders[i]

\* C6 witness: a row claimed by w1, released by the stale-lock requeue and
\* claimed again by w2 while w1 still works on it
C6_Witness ==
    \E i \in Ids(events) :
        /\ busHeld["w1"] = i
        /\ busHeld["w2"] = i
        /\ holders[i] = {"w2"}

\* lane ranks as the specification states them
C7_Rank(lane) ==
    CASE lane = "interactive" -> 0
      [] lane = "recovery" -> 1
      [] lane = "scheduled" -> 2
      [] lane = "system" -> 3

C7_IsClaimable(row, t) == row.status \in {"pending", "retry"} /\ row.available_at <= t

C7_NotAfter(r1, r2) ==
    \/ C7_Rank(r1.lane) < C7_Rank(r2.lane)
    \/ C7_Rank(r1.lane) = C7_Rank(r2.lane) /\ r1.priority > r2.priority
    \/ /\ C7_Rank(r1.lane) = C7_Rank(r2.lane)
       /\ r1.priority = r2.priority
       /\ r1.created_at <= r2.created_at

\* C7: a row that claim_next moves to processing was pending or retry with
\* available_at <= now, and no row claimable at that moment precedes it in
\* (lane rank asc, priority desc, created_at asc); claim_next has a row to
\* return whenever some row is claimable.
C7_ClaimStep ==
    \A i \in Ids(events) :
        (events[i].status # "processing" /\ events'[i].status = "processing") =>
            /\ C7_IsClaimable(events[i], now)
            /\ \A j \in Ids(events) :
                  C7_IsClaimable(events[j], now) => C7_NotAfter(events[i], events[j])

C7_NoneOnlyWhenEmpty ==
    (\E j \in Ids(events) : C7_IsClaimable(events[j], now)) => ClaimFirst(events, now) # {}

C7_ClaimOrder == [][C7_ClaimStep]_vars /\ []C7_NoneOnlyWhenEmpty

\* C7 witness: a claimed row that was published after a still claimable
\* row of the same lane, and overtook it by priority
C7_Witness ==
    \E i, j \in Ids(events) :
        /\ events[i].status = "processing"
        /\ C7_IsClaimable(events[j], now)
        /\ events[i].lane = events[j].lane
        /\ events[i].priority > events[j].priority
        /\ i > j

-----------------------------------------------------------------------------
(* The daemon: one process with one worker loop, the platform callbacks    *)
(* and timers of the process, and the environment (the user, the gateway,  *)
(* crashes, the clock).                                                     *)

MessageKinds == {"text"}

\* canProcessMessage: a DM of the allowed user with text or attachments
\* ("reset": its trimmed content is !reset)
canProcessMessage(kind) == kind \in {"text", "reset"}

\* a processDmMessage without the command branches
processDmMessagePc_NoCommands(c) == c.pc

\* processDmMessage up to its first await: clearSession for !reset, the
\* agent call otherwise
processDmMessagePc(c) ==
    IF c.pc = "dm_agent" /\ channel[c.ev[c.cur].payload.messageId] = "reset"
    THEN "dm_reset_clear"
    ELSE c.pc

Apply(c) ==
    /\ events' = c.ev
    /\ dm' = c.d
    /\ pc' = processDmMessagePc(c)
    /\ cur' = c.cur
    /\ frame' = c.frame

\* a platform or agent call that fails uses up one of the allowed failures
Outcome(o) ==
    IF o = "ok" THEN UNCHANGED faultsLeft
    ELSE faultsLeft > 0 /\ faultsLeft' = faultsLeft - 1

EnvStep == env > 0 /\ env' = env - 1

CurMessage == events[cur].payload.messageId

\* a connection guard that always answers ready
isReady_Always(clientReady) == TRUE

\* input.connection.isReady(): client.isReady()
isReady(clientReady) == clientReady

\* a worker that starts an iteration while a handler is in flight
handlerReturned_Always(position) == TRUE

\* runWorkerLoop: await handleEvent(event); the statements of the next
\* iteration run after the handler returned or threw
handlerReturned(position) == position = "idle"

\* runWorkerLoop: one iteration up to the first await of the handler
WorkerIterate ==
    /\ procUp /\ isReady(ready) /\ handlerReturned(pc)
    /\ LET ev1 == requeueStaleProcessing(events, STALE_LOCK_TIMEOUT_MS, now) IN
        \/ /\ ClaimFirst(ev1, now) = {}
           /\ events' = ev1
           /\ UNCHANGED <<dm, pc, cur, frame>>
        \/ \E id \in ClaimFirst(ev1, now) :
              Apply(Dispatch(ClaimUpdate(ev1, id, workerId, now), dm, id, offset, now))
    /\ UNCHANGED <<now, offset, channel, sent, procUp, ready, env, faultsLeft, missed, busOnlyVars, extVars>>

\* handleDmIncoming: fetchDmMessage settles
DmFetchDone(o) ==
    /\ procUp /\ pc = "dm_fetch"
    /\ Outcome(o)
    /\ Apply(IF o = "ok"
             THEN IF ~frame.eye
                  THEN Conf(events, dm, "dm_eye", cur, NoFrame)
                  ELSE SegProcess(events, dm, cur, CurMessage)
             ELSE DmCatch(events, dm, cur, CurMessage, o, now))
    /\ UNCHANGED <<now, offset, channel, sent, procUp, ready, env, missed, busOnlyVars, extVars>>

\* handleDmIncoming: message.react(EYE_EMOJI) settles
DmEyeDone(o) ==
    /\ procUp /\ pc = "dm_eye"
    /\ Outcome(o)
    /\ Apply(IF o = "ok"
             THEN SegProcess(events, markEyeApplied(dm, CurMessage), cur, CurMessage)
             ELSE DmCatch(events, dm, cur, CurMessage, o, now))
    /\ UNCHANGED <<now, offset, channel, sent, procUp, ready, env, missed, busOnlyVars, extVars>>

\* processDmMessage: the agent returns a response of `chunks` chunks; the
\* reply is published, then handleDmIncoming marks processing done
DmAgentDone(chunks) ==
    /\ procUp /\ pc = "dm_agent"
    /\ Apply(SegCheck(publish(events, ReplyInput(CurMessage, chunks), now).events,
                      markProcessingDone(dm, CurMessage), cur, CurMessage))
    /\ UNCHANGED <<now, offset, channel, sent, procUp, ready, env, faultsLeft, missed, busOnlyVars, extVars>>

\* processDmMessage: the agent fails; the error notice is published and a
\* TerminalEventError thrown; handleDmIncoming records it and awaits the
\* error reaction
DmAgentFail ==
    /\ procUp /\ pc = "dm_agent"
    /\ Outcome("error")
    /\ Apply(Conf(publish(events, ErrorInput(CurMessage), now).events,
                  setDmLastError(dm, CurMessage, "terminal"), "dm_errreact", cur, NoFrame))
    /\ UNCHANGED <<now, offset, channel, sent, procUp, ready, env, missed, busOnlyVars, extVars>>

\* handleDmIncoming: message.react(ERROR_EMOJI) settles (its failure is only logged)
DmErrReactDone ==
    /\ procUp /\ pc = "dm_errreact"
    /\ Apply(DmCatch(events, dm, cur, CurMessage, "terminal", now))
    /\ UNCHANGED <<now, offset, channel, sent, procUp, ready, env, faultsLeft, missed, busOnlyVars, extVars>>

\* handleDmIncoming: message.react(CHECK_EMOJI) settles
DmCheckDone(o) ==
    /\ procUp /\ pc = "dm_check"
    /\ Outcome(o)
    /\ Apply(IF o = "ok"
             THEN Finish(events, markCheckApplied(dm, CurMessage), cur)
             ELSE DmCatch(events, dm, cur, CurMessage, o, now))
    /\ UNCHANGED <<now, offset, channel, sent, procUp, ready, env, missed, busOnlyVars, extVars>>

TimesSent(id, chunk) == Cardinality({x \in sent : x[1] = id /\ x[2] = chunk})

\* handleOutboundDmRequest / sendChunksWithFallback: the send of chunk
\* frame.i settles (the channel fetch is taken together with the first send)
OutSendDone(o) ==
    /\ procUp /\ pc = "out_send"
    /\ Outcome(o)
    /\ IF o = "ok"
       THEN /\ sent' = sent \cup {<<cur, frame.i, TimesSent(cur, frame.i) + 1>>}
            /\ Apply(IF frame.i >= events[cur].payload.chunks
                     THEN Finish(events, dm, cur)
                     ELSE Conf(events, dm, "out_send", cur, [frame EXCEPT !.i = @ + 1]))
       ELSE /\ sent' = sent
            /\ Apply(WorkerCatch(events, dm, cur,
                                 IF o = "terminal" THEN "DiscordTerminal" ELSE "Other", now))
    /\ UNCHANGED <<now, offset, channel, procUp, ready, env, missed, busOnlyVars, extVars>>

\* handleSchedulerTriggered: runScheduleByName returns; chunks = 0 stands
\* for a response that is not notified (skip token, discord_notify off)
SchedAgentDone(chunks) ==
    /\ procUp /\ pc = "sched_agent"
    /\ LET p == events[cur].payload IN
       Apply(Finish(IF chunks = 0 THEN events
                    ELSE publish(events,
                                 ScheduleOutboundInput(p.scheduleName, p.triggeredAt, chunks),
                                 now).events,
                    dm, cur))
    /\ UNCHANGED <<now, offset, channel, sent, procUp, ready, env, faultsLeft, missed, busOnlyVars, extVars>>

\* handleSchedulerTriggered: runScheduleByName throws
SchedAgentFail ==
    /\ procUp /\ pc = "sched_agent"
    /\ Outcome("error")
    /\ Apply(WorkerCatch(events, dm, cur, "Other", now))
    /\ UNCHANGED <<now, offset, channel, sent, procUp, ready, env, missed, busOnlyVars, extVars>>

RECURSIVE UpdateOffsets(_, _)
UpdateOffsets(off, ms) ==
    IF ms = {} THEN off
    ELSE UpdateOffsets(updateDmOffset(off, SetMin(ms)), ms \ {SetMin(ms)})

\* handleRecoveryRun: the page fetched after the cursor read before the awaits
RecoveryBatch(cursor) == {m \in 1..Len(channel) : m > cursor}

RecoveryEligible(ms) ==
    {m \in ms : /\ canProcessMessage(channel[m])
                /\ ~(m \in DOMAIN dm /\ (dm[m].processing_done \/ dm[m].terminal_failed))}

\* handleRecoveryRun: the fetches settle (one page: fewer than 100 messages)
RecPageDone(o) ==
    /\ procUp /\ pc = "rec_fetch"
    /\ Outcome(o)
    /\ IF o # "ok"
       THEN /\ Apply(WorkerCatch(events, dm, cur,
                                 IF o = "terminal" THEN "DiscordTerminal" ELSE "Other", now))
            /\ UNCHANGED offset
       ELSE IF frame.cursor = NoOffset
            THEN /\ offset' = IF Len(channel) = 0 THEN offset
                              ELSE updateDmOffset(offset, Len(channel))
                 /\ Apply(Finish(events, dm, cur))
            ELSE /\ offset' = UpdateOffsets(offset, RecoveryBatch(frame.cursor))
                 /\ Apply(Finish(EnqueueEach(events,
                                             RecoveryEligible(RecoveryBatch(frame.cursor)),
                                             "recovery", 5, now),
                                 dm, cur))
    /\ UNCHANGED <<now, channel, sent, procUp, ready, env, missed, busOnlyVars, extVars>>

\* the process dies (kill, power loss): the claimed row keeps its lock
Crash ==
    /\ procUp
    /\ EnvStep
    /\ procUp' = FALSE /\ ready' = FALSE
    /\ pc' = "idle" /\ cur' = 0 /\ frame' = NoFrame
    /\ UNCHANGED <<events, now, dm, offset, channel, sent, faultsLeft, missed, busOnlyVars, extVars>>

\* the process dies between the publish of an outbound request and the
\* statement that follows it (markProcessingDone, resp. markDone)
CrashAfterPublish ==
    /\ procUp /\ pc \in {"dm_agent", "sched_agent"}
    /\ EnvStep
    /\ events' = IF pc = "dm_agent"
                 THEN publish(events, ReplyInput(CurMessage, 1), now).events
                 ELSE publish(events,
                              ScheduleOutboundInput(events[cur].payload.scheduleName,
                                                    events[cur].payload.triggeredAt, 1),
                              now).events
    /\ procUp' = FALSE /\ ready' = FALSE
    /\ pc' = "idle" /\ cur' = 0 /\ frame' = NoFrame
    /\ UNCHANGED <<now, dm, offset, channel, sent, faultsLeft, missed, busOnlyVars, extVars>>

\* the process dies in the outer catch of handleDmIncoming, after
\* markDmTerminalFailureIfNeeded and before the worker loop's markDead: the
\* DM row is terminal_failed, the event keeps its lock
CrashAfterTerminalMark ==
    /\ procUp /\ pc \in {"dm_fetch", "dm_eye", "dm_check", "dm_errreact"}
    /\ EnvStep
    /\ IF pc = "dm_errreact" THEN UNCHANGED faultsLeft ELSE Outcome("terminal")
    /\ dm' = markDmTerminalFailureIfNeeded(setDmLastError(dm, CurMessage, "terminal"),
                                           CurMessage, "terminal")
    /\ procUp' = FALSE /\ ready' = FALSE
    /\ pc' = "idle" /\ cur' = 0 /\ frame' = NoFrame
    /\ UNCHANGED <<events, now, offset, channel, sent, missed, busOnlyVars, extVars>>

\* main.ts daemon mode: the process starts; runtime.start() enqueues the startup reconcile
Start ==
    /\ ~procUp
    /\ procUp' = TRUE
    /\ events' = publish(events, ReconcileInput("startup", now), now).events
    /\ UNCHANGED <<now, dm, offset, channel, sent, ready, pc, cur, frame, env, faultsLeft,
                   missed, busOnlyVars, extVars>>

\* clientReady (first connection and every reconnect): enqueueRecovery
ClientReady ==
    /\ procUp /\ ~ready
    /\ ready' = TRUE
    /\ events' = publish(events, RecoveryInput("client_ready", now), now).events
    /\ UNCHANGED <<now, dm, offset, channel, sent, procUp, pc, cur, frame, env, faultsLeft,
                   missed, busOnlyVars, extVars>>

\* the gateway connection is lost
Disconnect ==
    /\ procUp /\ ready
    /\ EnvStep
    /\ ready' = FALSE
    /\ UNCHANGED <<events, now, dm, offset, channel, sent, procUp, pc, cur, frame, faultsLeft,
                   missed, busOnlyVars, extVars>>

\* a callback that advances the offset before it publishes
messageCreate_OffsetFirst(ev, off, m, stored, t) ==
    [events |-> IF stored
                THEN publish(ev, DmIncomingInput(m, "interactive", 20), t).events
                ELSE ev,
     offset |-> updateDmOffset(off, m)]

\* createBot: the messageCreate callback for a message that canProcessMessage
\* accepts: try { publish; updateDmOffset } catch { log }.  stored tells
\* whether the INSERT of publish succeeded; when it throws, the catch is
\* entered before updateDmOffset is reached
messageCreate(ev, off, m, stored, t) ==
    IF stored
    THEN [events |-> publish(ev, DmIncomingInput(m, "interactive", 20), t).events,
          offset |-> updateDmOffset(off, m)]
    ELSE [events |-> ev, offset |-> off]

\* the user sends a DM; a connected gateway delivers it to the messageCreate
\* callback of createBot: publish, then updateDmOffset
UserSend(kind) ==
    /\ EnvStep
    /\ channel' = Append(channel, kind)
    /\ IF procUp /\ ready
       THEN /\ IF canProcessMessage(kind)
               THEN LET r == messageCreate(events, offset, Len(channel) + 1, TRUE, now) IN
                    /\ events' = r.events
                    /\ offset' = r.offset
               ELSE UNCHANGED <<events, offset>>
            /\ UNCHANGED missed
       ELSE /\ missed' = IF canProcessMessage(kind) /\ offset # NoOffset /\ pc # "rec_fetch"
                         THEN missed \cup {Len(channel) + 1} ELSE missed
            /\ UNCHANGED <<events, offset>>
    /\ UNCHANGED <<now, dm, sent, procUp, ready, pc, cur, frame, faultsLeft, busOnlyVars, extVars>>

\* the user sends a DM to a connected daemon whose store rejects the INSERT
\* of publish (database busy or unavailable)
UserSendStoreDown(kind) ==
    /\ EnvStep
    /\ procUp /\ ready /\ canProcessMessage(kind)
    /\ faultsLeft > 0 /\ faultsLeft' = faultsLeft - 1
    /\ channel' = Append(channel, kind)
    /\ LET r == messageCreate(events, offset, Len(channel) + 1, FALSE, now) IN
        /\ events' = r.events
        /\ offset' = r.offset
    /\ UNCHANGED <<now, dm, sent, procUp, ready, pc, cur, frame, missed, busOnlyVars, extVars>>

\* start(): the reconcile interval timer fires
ReconcileTimer ==
    /\ procUp
    /\ EnvStep
    /\ events' = publish(events, ReconcileInput("timer", now), now).events
    /\ UNCHANGED <<now, dm, offset, channel, sent, procUp, ready, pc, cur, frame, faultsLeft,
                   missed, busOnlyVars, extVars>>

\* a cron job of the scheduler fires (at most once per instant)
SchedulerFire ==
    /\ procUp
    /\ EnvStep
    /\ \A i \in Ids(events) :
          events[i].type = "scheduler.triggered" => events[i].payload.triggeredAt # now
    /\ events' = publish(events, SchedulerTriggeredInput("daily", now), now).events
    /\ UNCHANGED <<now, dm, offset, channel, sent, procUp, ready, pc, cur, frame, faultsLeft,
                   missed, busOnlyVars, extVars>>

\* the clock reaches the next available_at of a waiting row
TickToAvailable ==
    /\ LET due == {events[i].available_at : i \in {j \in Ids(events) :
                       events[j].status \in {"pending", "retry"} /\ events[j].available_at > now}}
       IN due # {} /\ now' = SetMin(due)
    /\ UNCHANGED <<events, daemonVars, busOnlyVars, extVars>>

\* the clock passes the stale-lock timeout of a row locked by a process that died
TickToStale ==
    /\ LET due == {events[i].locked_at + STALE_LOCK_TIMEOUT_MS + 1 : i \in {j \in Ids(events) :
                       /\ events[j].status = "processing"
                       /\ j # cur
                       /\ events[j].locked_at + STALE_LOCK_TIMEOUT_MS + 1 > now}}
       IN due # {} /\ now' = SetMin(due)
    /\ UNCHANGED <<events, daemonVars, busOnlyVars, extVars>>

BusOff ==
    /\ busHeld = [w \in Workers |-> 0]
    /\ busOps = 0
    /\ holders = <<>>
    /\ ExtOff

Fresh ==
    /\ events = <<>>
    /\ now = 0
    /\ dm = <<>>
    /\ offset = NoOffset
    /\ channel = <<>>
    /\ sent = {}
    /\ procUp = FALSE
    /\ ready = FALSE
    /\ pc = "idle"
    /\ cur = 0
    /\ frame = NoFrame
    /\ missed = {}
    /\ BusOff

Init ==
    /\ Fresh
    /\ env = MaxEnv
    /\ faultsLeft = MaxFaults

CallOutcomes == {"ok", "retryable", "terminal"}

Next ==
    \/ WorkerIterate
    \/ \E o \in CallOutcomes : DmFetchDone(o)
    \/ \E o \in CallOutcomes : DmEyeDone(o)
    \/ \E chunks \in {1, 2} : DmAgentDone(chunks)
    \/ DmAgentFail
    \/ DmErrReactDone
    \/ \E o \in CallOutcomes : DmCheckDone(o)
    \/ \E o \in CallOutcomes : OutSendDone(o)
    \/ \E chunks \in {0, 1} : SchedAgentDone(chunks)
    \/ SchedAgentFail
    \/ \E o \in CallOutcomes : RecPageDone(o)
    \/ Crash
    \/ CrashAfterPublish
    \/ CrashAfterTerminalMark
    \/ Start
    \/ ClientReady
    \/ Disconnect
    \/ \E kind \in MessageKinds : UserSend(kind)
    \/ ReconcileTimer
    \/ SchedulerFire
    \/ TickToAvailable
    \/ TickToStale

Spec == Init /\ [][Next]_vars

-----------------------------------------------------------------------------
(* Claims about the daemon, checked under Spec *)

OutboundRows(requestId) ==
    {i \in Ids(events) : /\ events[i].type = "outbound.dm.request"
                         /\ events[i].payload.requestId = requestId}

OutboundRowsOfMessage(ev, m) ==
    {i \in Ids(ev) : /\ ev[i].type = "outbound.dm.request"
                     /\ ev[i].payload.requestId \in {ReplyRequestId(m), ErrorRequestId(m)}}

\* the agent is being run for message m
AgentRunning(p, c, ev, m) ==
    p = "dm_agent" /\ ev[c].payload.messageId = m

\* C2: once processing_done is set for a message, no later step starts an
\* agent run for that message and no later step publishes another outbound
\* request for it.
C2_Step ==
    \A m \in DOMAIN dm :
        dm[m].processing_done =>
            /\ ~(AgentRunning(pc', cur', events', m) /\ ~AgentRunning(pc, cur, events, m))
            /\ OutboundRowsOfMessage(events', m) = OutboundRowsOfMessage(events, m)

C2_NoReprocessing == [][C2_Step]_vars

\* C2 witness: a dm.incoming event of a message whose processing is done is
\* dispatched again (a retry after the check reaction failed) and has passed
\* the processing gate
C2_Witness ==
    /\ pc = "dm_check"
    /\ events[cur].attempt_count > 0
    /\ dm[CurMessage].processing_done
    /\ dm[CurMessage].last_error = "retryable"

\* C3: at most one reply request per message id and at most one
\* notification request per scheduler firing ever exist in the events table.
C3_OneOutbound ==
    /\ \A m \in 1..Len(channel) : Cardinality(OutboundRows(ReplyRequestId(m))) <= 1
    /\ \A i \in Ids(events) :
          events[i].type = "scheduler.triggered" =>
              Cardinality(OutboundRows(ScheduleRequestId(events[i].payload.scheduleName,
                                                         events[i].payload.triggeredAt))) <= 1

\* C3 witness (reply): the agent runs again for a message whose reply
\* request was already published by a run that died before marking
\* processing done
C3_Witness ==
    /\ pc = "dm_agent"
    /\ OutboundRows(ReplyRequestId(CurMessage)) # {}

\* C3 witness (scheduler): a firing is handled again after its notification
\* request was published
C3_WitnessSchedule ==
    /\ pc = "sched_agent"
    /\ OutboundRows(ScheduleRequestId(events[cur].payload.scheduleName,
                                      events[cur].payload.triggeredAt)) # {}

\* C4 (as claimed): no chunk of an outbound request is delivered a second
\* time, also when the request is replayed after a retryable failure part
\* way through or after a stale-lock requeue.
C4_NoChunkResent ==
    \A x \in sent : x[3] = 1

\* C8: a row that is done or dead is never changed again (so never claimed,
\* retried or requeued).
C8_Step ==
    \A i \in Ids(events) :
        events[i].status \in {"done", "dead"} => events'[i] = events[i]

C8_TerminalStatesFinal == [][C8_Step]_vars

\* C8 witness: a done row and a dead row exist while the worker has claimed
\* a later row and the clock has passed a stale-lock or backoff deadline
C8_Witness ==
    /\ \E i \in Ids(events) : events[i].status = "done"
    /\ \E i \in Ids(events) : events[i].status = "dead"
    /\ cur # 0
    /\ now > 0

\* a step in which the running handler raises a terminal marker
\* (TerminalEventError) or a platform error with a terminal code
TerminalRaised ==
    \/ DmFetchDone("terminal")
    \/ DmEyeDone("terminal")
    \/ DmErrReactDone
    \/ DmCheckDone("terminal")
    \/ OutSendDone("terminal")
    \/ RecPageDone("terminal")

\* C11: when the handler of the claimed event raises a terminal marker or a
\* platform error with a terminal code, that step marks the event dead (one
\* more attempt counted, lock released, no retry scheduled), and if the
\* event is a dm.incoming its DM row has terminal_failed = true in the same
\* state.
C11_Step ==
    TerminalRaised =>
        /\ events'[cur].status = "dead"
        /\ events'[cur].attempt_count = events[cur].attempt_count + 1
        /\ events'[cur].available_at = events[cur].available_at
        /\ events'[cur].locked_by = NULL
        /\ events[cur].type = "dm.incoming" =>
              /\ CurMessage \in DOMAIN dm'
              /\ dm'[CurMessage].terminal_failed

C11_TerminalIsDead == [][C11_Step]_vars

\* C11 witness (terminal marker): a dm.incoming event is dead after the
\* eye reaction had been applied, its DM row terminal_failed
C11_Witness ==
    \E i \in Ids(events) :
        /\ events[i].type = "dm.incoming"
        /\ events[i].status = "dead"
        /\ events[i].last_error = "terminal"
        /\ dm[events[i].payload.messageId].eye_applied
        /\ dm[events[i].payload.messageId].terminal_failed

\* C11 witness (platform code): an outbound request is dead after its
\* first chunk was delivered and the send of the second raised a terminal code
C11_WitnessPlatformCode ==
    \E i \in Ids(events) :
        /\ events[i].type = "outbound.dm.request"
        /\ events[i].status = "dead"
        /\ events[i].attempt_count = 1
        /\ TimesSent(i, 1) = 1

DmIncomingRows(ev) == {i \in Ids(ev) : ev[i].type = "dm.incoming"}

\* the handler of message m is applying a reaction or running the agent
DmWorking(p, c, ev, m) ==
    /\ p \in {"dm_eye", "dm_agent", "dm_check"}
    /\ ev[c].payload.messageId = m

\* C15: once the DM row of a message has terminal_failed = true, no step
\* records the eye or the check reaction for it, and no step starts the eye
\* reaction, the agent or the check reaction for it.
C15_Step ==
    \A m \in DOMAIN dm :
        dm[m].terminal_failed =>
            /\ dm'[m].eye_applied = dm[m].eye_applied
            /\ dm'[m].check_applied = dm[m].check_applied
            /\ dm'[m].terminal_failed
            /\ ~DmWorking(pc', cur', events', m)

C15_TerminalStops == [][C15_Step]_vars

\* C15 witness: a dm.incoming event whose message was marked
\* terminal_failed by a process that died before markDead was requeued,
\* dispatched again and returned at the terminal_failed gate
C15_Witness ==
    \E i \in DmIncomingRows(events) :
        /\ events[i].status = "done"
        /\ dm[events[i].payload.messageId].terminal_failed

\* C16 (as claimed): a message whose check reaction is recorded has had its
\* reply delivered: every reply request of the message has been claimed, all
\* its chunks sent and the event marked done (so it is neither waiting nor
\* dead).
C16_CheckAfterDelivery ==
    \A m \in DOMAIN dm :
        dm[m].check_applied =>
            \A i \in OutboundRows(ReplyRequestId(m)) :
                /\ events[i].status = "done"
                /\ \A k \in 1..events[i].payload.chunks : TimesSent(i, k) >= 1

\* C14: in every reachable state a DM row with check_applied = true has
\* processing_done = true.
C14_CheckImpliesDone ==
    \A m \in DOMAIN dm : dm[m].check_applied => dm[m].processing_done

\* C14 witness: the check reaction of a message was recorded by a later
\* attempt than the one that processed it
C14_Witness ==
    \E i \in DmIncomingRows(events) :
        /\ events[i].status = "done"
        /\ events[i].attempt_count > 0
        /\ dm[events[i].payload.messageId].check_applied


\* rows i and j are both claimable and equal in every key of the claim
\* order, so that the store may return either first
C13_Tied(i, j) ==
    /\ events[j].status \in {"pending", "retry"}
    /\ events[j].available_at <= now
    /\ events[j].lane = events[i].lane
    /\ events[j].priority = events[i].priority
    /\ events[j].created_at = events[i].created_at

C13_Step ==
    \A i \in DmIncomingRows(events) :
        (events[i].status # "processing" /\ events'[i].status = "processing") =>
            \A j \in DmIncomingRows(events) :
                (/\ events[j].status \in {"pending", "retry"}
                 /\ events[j].payload.messageId < events[i].payload.messageId)
                    => C13_Tied(i, j)

\* C13 (as claimed): the worker dispatches the dm.incoming events of the
\* user in ascending message id: when it dispatches one, no dm.incoming
\* event of an earlier message is still waiting to be dispatched (pending,
\* or in retry after a retryable failure), whether the events were enqueued
\* live, by recovery or by reconcile.  Rows published in the same
\* millisecond with the same lane and priority are left out.
C13_SendOrder == [][C13_Step]_vars

-----------------------------------------------------------------------------
(* SpecRecovery: the daemon with a user who keeps writing while the gateway *)
(* connection comes and goes; every platform and agent call succeeds.       *)

InitRecovery ==
    /\ Fresh
    /\ env = MaxRecoveryEnv
    /\ faultsLeft = 0

NextRecovery ==
    \/ WorkerIterate
    \/ DmFetchDone("ok")
    \/ DmEyeDone("ok")
    \/ DmAgentDone(1)
    \/ DmCheckDone("ok")
    \/ OutSendDone("ok")
    \/ RecPageDone("ok")
    \/ Start
    \/ ClientReady
    \/ Disconnect
    \/ \E kind \in MessageKinds : UserSend(kind)

SpecRecovery == InitRecovery /\ [][NextRecovery]_vars

RecoveryRuns == {i \in Ids(events) : events[i].type = "dm.recover.run"}

Enqueued(m) ==
    \E i \in Ids(events) : events[i].type = "dm.incoming" /\ events[i].payload.messageId = m

\* C1 (as claimed): once the daemon is connected again and every recovery
\* run published so far has completed, every eligible DM that was sent
\* while the gateway was not delivering (with an offset stored, and no
\* recovery run in flight at that moment) has a dm.incoming event, whatever
\* live messages arrived in between.
C1_RecoveryEnqueuesMissed ==
    (/\ procUp /\ ready
     /\ \A i \in RecoveryRuns : events[i].status = "done")
        => \A m \in missed : Enqueued(m)

-----------------------------------------------------------------------------
(* SpecRetry: a platform that may fail every call of the DM handler, as    *)
(* often as the retry policy allows attempts.                              *)

InitRetry ==
    /\ Fresh
    /\ env = MaxRetryEnv
    /\ faultsLeft = MAX_ATTEMPTS

RetryOutcomes == {"ok", "retryable"}

NextRetry ==
    \/ WorkerIterate
    \/ \E o \in RetryOutcomes : DmFetchDone(o)
    \/ \E o \in RetryOutcomes : DmEyeDone(o)
    \/ DmAgentDone(1)
    \/ \E o \in RetryOutcomes : DmCheckDone(o)
    \/ OutSendDone("ok")
    \/ RecPageDone("ok")
    \/ Start
    \/ ClientReady
    \/ \E kind \in MessageKinds : UserSend(kind)
    \/ ReconcileTimer
    \/ TickToAvailable

SpecRetry == InitRetry /\ [][NextRetry]_vars

DeadDmIncoming ==
    {i \in Ids(events) : events[i].type = "dm.incoming" /\ events[i].status = "dead"}

\* C10 (as claimed): when a dm.incoming event is dead (after a terminal
\* error, or after retryable errors used up the 20 attempts), the DM row of
\* its message has terminal_failed = true and no dm.incoming event for that
\* message is pending, retrying or being processed.
C10_DeadIsTerminal ==
    \A i \in DeadDmIncoming :
        LET m == events[i].payload.messageId IN
        /\ m \in DOMAIN dm
        /\ dm[m].terminal_failed
        /\ ~hasActiveDmIncomingEvent(events, m)

-----------------------------------------------------------------------------
(* LiveSpec: the daemon under the scheduling the runtime provides: the      *)
(* worker loop keeps polling, every awaited call settles, the connection    *)
(* supervisor eventually reports ready, a dead process is started again,    *)
(* and the clock advances.                                                  *)

InitLive ==
    /\ Fresh
    /\ env = MaxLiveEnv
    /\ faultsLeft = MaxLiveFaults

HandlerStep ==
    \/ \E o \in CallOutcomes : DmFetchDone(o)
    \/ \E o \in CallOutcomes : DmEyeDone(o)
    \/ \E chunks \in {1, 2} : DmAgentDone(chunks)
    \/ DmAgentFail
    \/ DmErrReactDone
    \/ \E o \in CallOutcomes : DmCheckDone(o)
    \/ \E o \in CallOutcomes : OutSendDone(o)
    \/ \E chunks \in {0, 1} : SchedAgentDone(chunks)
    \/ SchedAgentFail
    \/ \E o \in CallOutcomes : RecPageDone(o)

Fairness ==
    /\ WF_vars(WorkerIterate)
    /\ WF_vars(HandlerStep)
    /\ WF_vars(Start)
    /\ WF_vars(ClientReady)
    /\ WF_vars(TickToAvailable)
    /\ WF_vars(TickToStale)

LiveSpec == InitLive /\ [][Next]_vars /\ Fairness

AllSettled == \A i \in Ids(events) : events[i].status \in {"done", "dead"}

\* C9: every published event eventually reaches done or dead: from some
\* point on every row of the events table is done or dead (the environment
\* publishes finitely often).
C9_EventuallySettled == <>[]AllSettled

\* C9 witness: an event left in processing by a process that died was
\* requeued by the stale-lock requeue, dispatched again and is done
C9_Witness ==
    \E i \in Ids(events) :
        /\ events[i].status = "done"
        /\ events[i].last_error = "stale_processing_requeued"

-----------------------------------------------------------------------------
(* SpecOffset: updateDmOffset called with arbitrary id texts on one scope. *)
(* An id is the sequence of its characters.                                 *)

IdChars == {"0", "1", "a"}

\* UTF-16 code unit of a character (the order of JS string comparison)
CharCode(c) == CASE c = "0" -> 48 [] c = "1" -> 49 [] c = "a" -> 97

IsDigit(c) == c \in {"0", "1"}

DigitValue(c) == IF c = "0" THEN 0 ELSE 1

RECURSIVE IdTextsOfLen(_)
IdTextsOfLen(n) ==
    IF n = 0 THEN {<<>>}
    ELSE {Append(t, c) : t \in IdTextsOfLen(n - 1), c \in IdChars}

IdTexts == UNION {IdTextsOfLen(n) : n \in 0..MaxIdLen}

RECURSIVE DecimalValue(_)
DecimalValue(text) ==
    IF text = <<>> THEN 0
    ELSE 10 * DecimalValue(SubSeq(text, 1, Len(text) - 1)) + DigitValue(text[Len(text)])

NotANumber == 0 - 1

\* snowflakeToBigInt on a text: BigInt(value), null (NotANumber) when it
\* throws; BigInt("") is 0n
textToBigInt(text) ==
    IF \A k \in 1..Len(text) : IsDigit(text[k]) THEN DecimalValue(text) ELSE NotANumber

\* updateDmOffset on the rows of the scope: `if (current)` is false for no
\* row and for the empty text
updateDmOffsetText(rows, messageId) ==
    IF /\ rows # <<>>
       /\ rows[1] # <<>>
       /\ textToBigInt(rows[1]) # NotANumber
       /\ textToBigInt(messageId) # NotANumber
       /\ textToBigInt(messageId) <= textToBigInt(rows[1])
    THEN rows
    ELSE <<messageId>>

OffsetUpdate(messageId) ==
    /\ Len(offsetCalls) < MaxOffsetCalls
    /\ offsetCalls' = Append(offsetCalls, messageId)
    /\ offsetRow' = updateDmOffsetText(offsetRow, messageId)
    /\ UNCHANGED <<events, now, daemonVars, busOnlyVars, unitVars, fifoVars, connVars>>

\* the events table, the daemon and the SpecBus clients, in a specification
\* of another component
StoreOff ==
    /\ events = <<>>
    /\ now = 0
    /\ DaemonOff
    /\ busHeld = [w \in Workers |-> 0]
    /\ busOps = 0
    /\ holders = <<>>

InitOffset ==
    /\ StoreOff
    /\ ExtOff

NextOffset == \E messageId \in IdTexts : OffsetUpdate(messageId)

SpecOffset == InitOffset /\ [][NextOffset]_vars

\* JS a < b on strings: lexicographic by code unit
RECURSIVE TextLess(_, _)
TextLess(a, b) ==
    IF b = <<>> THEN FALSE
    ELSE IF a = <<>> THEN TRUE
    ELSE IF CharCode(a[1]) # CharCode(b[1]) THEN CharCode(a[1]) < CharCode(b[1])
    ELSE TextLess(Tail(a), Tail(b))

IsInteger(text) == text # <<>> /\ \A k \in 1..Len(text) : IsDigit(text[k])

\* "greater" as the claim states it: integers when both ids are integers,
\* string comparison otherwise
C12_Greater(a, b) ==
    IF IsInteger(a) /\ IsInteger(b) THEN DecimalValue(a) > DecimalValue(b)
    ELSE TextLess(b, a)

C12_Step ==
    offsetCalls' # offsetCalls =>
        LET id == offsetCalls'[Len(offsetCalls')] IN
        IF offsetRow = <<>> THEN offsetRow' = <<id>>
        ELSE /\ offsetRow' = IF C12_Greater(id, offsetRow[1]) THEN <<id>> ELSE offsetRow
             /\ ~C12_Greater(offsetRow[1], offsetRow'[1])

\* C12 (as claimed): over every sequence of update_offset calls on a scope
\* the stored offset never decreases: a call writes exactly when the new id
\* is greater than the stored one, ids compared as integers, and as strings
\* when one of them is not an integer.
C12_OffsetNeverDecreases == [][C12_Step]_vars

C12_StepIntegers ==
    (/\ offsetCalls' # offsetCalls
     /\ \A k \in 1..Len(offsetCalls') : IsInteger(offsetCalls'[k])) =>
        LET id == offsetCalls'[Len(offsetCalls')] IN
        IF offsetRow = <<>> THEN offsetRow' = <<id>>
        ELSE /\ offsetRow' = IF DecimalValue(id) > DecimalValue(offsetRow[1])
                             THEN <<id>> ELSE offsetRow
             /\ DecimalValue(offsetRow'[1]) >= DecimalValue(offsetRow[1])

\* C12 restricted to call sequences of integer ids (the ids the platform
\* issues): the same statement holds.
C12_IntegerIdsMonotone == [][C12_StepIntegers]_vars

-----------------------------------------------------------------------------
(* SpecFifo: the agent-CLI queue of claude-adapter.ts with any number of   *)
(* callers of sendToClaude.  A step is the synchronous code between two    *)
(* awaits; the only await of runQueue is the one on runClaudeCommand.      *)

MaxJobs == 5

FifoConf(q, running, inFlight, started) ==
    [queue |-> q, running |-> running, inFlight |-> inFlight, started |-> started]

\* a loop that takes the job parked last
LoopNext_Lifo(q, inFlight, started) ==
    IF q = <<>>
    THEN FifoConf(q, FALSE, inFlight, started)
    ELSE FifoConf(SubSeq(q, 1, Len(q) - 1), TRUE, inFlight \cup {<<q[Len(q)], 1>>},
                  Append(started, q[Len(q)]))

\* runQueue: one turn of the while loop, up to the await.  With an empty
\* queue the loop ends and the finally block clears the flag (its re-run
\* test reads the same empty queue); otherwise the job is shifted and
\* runClaudeCommand is called for it.
LoopNext(q, inFlight, started) ==
    IF q = <<>>
    THEN FifoConf(q, FALSE, inFlight, started)
    ELSE FifoConf(Tail(q), TRUE, inFlight \cup {<<Head(q), 1>>}, Append(started, Head(q)))

\* a runQueue without the queueWorkerRunning test
runQueue_NoGuard(q, running, inFlight, started) == LoopNext(q, inFlight, started)

\* runQueue, from its call to its first await (or its return)
runQueue(q, running, inFlight, started) ==
    IF running THEN FifoConf(q, running, inFlight, started)
    ELSE LoopNext(q, inFlight, started)

FifoApply(c) ==
    /\ claudeQueue' = c.queue
    /\ queueWorkerRunning' = c.running
    /\ agentInFlight' = c.inFlight
    /\ agentStarted' = c.started

\* sendToClaude: push the job, call runQueue
SendToClaude ==
    /\ Len(agentSettled) < MaxJobs
    /\ agentSettled' = Append(agentSettled, "pending")
    /\ FifoApply(runQueue(Append(claudeQueue, Len(agentSettled) + 1), queueWorkerRunning,
                          agentInFlight, agentStarted))
    /\ UNCHANGED <<events, now, daemonVars, busOnlyVars, unitVars, offsetVars, connVars>>

\* runClaudeCommand: the CLI process of a first attempt exits with a
\* sandbox-gone or session-not-found error; the command is run once more
AgentRetry(job) ==
    /\ <<job, 1>> \in agentInFlight
    /\ agentInFlight' = (agentInFlight \ {<<job, 1>>}) \cup {<<job, 2>>}
    /\ UNCHANGED <<events, now, daemonVars, busOnlyVars, unitVars, offsetVars, connVars,
                   claudeQueue, queueWorkerRunning, agentStarted, agentSettled>>

\* runClaudeCommand settles; runQueue resolves or rejects the job and goes
\* round its loop
AgentSettle(job, attempt, result) ==
    /\ <<job, attempt>> \in agentInFlight
    /\ agentSettled' = [agentSettled EXCEPT ![job] = result]
    /\ FifoApply(LoopNext(claudeQueue, agentInFlight \ {<<job, attempt>>}, agentStarted))
    /\ UNCHANGED <<events, now, daemonVars, busOnlyVars, unitVars, offsetVars, connVars>>

InitFifo ==
    /\ StoreOff
    /\ ExtOff

NextFifo ==
    \/ SendToClaude
    \/ \E job \in 1..MaxJobs : AgentRetry(job)
    \/ \E job \in 1..MaxJobs, attempt \in {1, 2}, result \in {"resolved", "rejected"} :
          AgentSettle(job, attempt, result)

SpecFifo == InitFifo /\ [][NextFifo]_vars

\* C17: at most one agent-CLI process is running at any time, the second
\* process of an internal retry included, however many callers are parked.
C17_OneInFlight == Cardinality(agentInFlight) <= 1

\* C17 witness: the retry process of a job runs while two later callers wait
C17_Witness ==
    /\ \E job \in 1..MaxJobs : <<job, 2>> \in agentInFlight
    /\ Len(claudeQueue) >= 2

\* C18: the jobs are started in submission order, each once; a job is
\* started only when every job submitted before it has resolved or
\* rejected; and parked jobs are never left without a running job (a
\* rejection does not stop the queue).
C18_StartOrder ==
    /\ \A i \in 1..Len(agentStarted) : agentStarted[i] = i
    /\ \A i \in 1..Len(agentStarted) :
          \A k \in 1..(i - 1) : agentSettled[agentStarted[k]] # "pending"
    /\ claudeQueue # <<>> => agentInFlight # {}
    /\ \A job \in 1..Len(agentSettled) :
          \/ \E i \in 1..Len(claudeQueue) : claudeQueue[i] = job
          \/ \E i \in 1..Len(agentStarted) : agentStarted[i] = job

\* C18 witness: a job is running after the job before it rejected, with a
\* later job parked
C18_Witness ==
    \E job \in 2..MaxJobs :
        /\ \E attempt \in {1, 2} : <<job, attempt>> \in agentInFlight
        /\ agentSettled[job - 1] = "rejected"
        /\ claudeQueue # <<>>

-----------------------------------------------------------------------------
(* SpecConn: the connection manager (createDiscordConnectionManager with   *)
(* requestReconnect / runReconnectLoop) and its client.  A step is one      *)
(* callback, timer or promise settlement together with the continuations   *)
(* it makes runnable: they run as microtasks before any other callback.    *)
(* Operators take and return the record of the closure variables.          *)

MaxConnEnv == 3

MAX_RECONNECT_ATTEMPT == 10

RECURSIVE SetResults(_, _, _)
SetResults(res, ws, value) ==
    IF ws = {} THEN res
    ELSE LET w == CHOOSE x \in ws : TRUE IN
         SetResults([res EXCEPT ![w] = value], ws \ {w}, value)

\* a resolveWaiters that leaves the timers of the waiters running
resolveWaiters_KeepTimers(c, value) ==
    [c EXCEPT !.waiters = {},
              !.waitResult = SetResults(@, c.waiters, value)]

\* resolveWaiters: clearTimeout and resolve for every waiter, then clear the set
resolveWaiters(c, value) ==
    [c EXCEPT !.timers = @ \ c.waiters,
              !.waiters = {},
              !.waitResult = SetResults(@, c.waiters, value)]

\* waitUntilReady called as w
waitUntilReady(c, w) ==
    IF c.ready THEN [c EXCEPT !.waitResult[w] = "true"]
    ELSE IF c.stopping THEN [c EXCEPT !.waitResult[w] = "false"]
    ELSE [c EXCEPT !.waiters = @ \cup {w}, !.timers = @ \cup {w},
                   !.waitResult[w] = "pending"]

\* client.destroy()
destroy(c) == [c EXCEPT !.ready = FALSE, !.connecting = FALSE]

RECURSIVE LoopWhile(_)
RECURSIVE LoopAfterWait(_)
RECURSIVE LoopFinally(_)
RECURSIVE requestReconnect(_, _)

\* runReconnectLoop: from the test of the while loop to the next await
LoopWhile(c) ==
    IF ~c.stopping /\ (c.forceReconnectRequested \/ ~c.ready)
    THEN LET c1 == [c EXCEPT !.attempt = Min(@ + 1, MAX_RECONNECT_ATTEMPT),
                             !.forceCurrentCycle = c.forceReconnectRequested,
                             !.reconnectReason = FALSE,
                             !.forceReconnectRequested = FALSE,
                             !.consecutiveHighPingCount = 0]
         IN IF c1.attempt <= 1 THEN LoopAfterWait(c1)
            ELSE [c1 EXCEPT !.loopPc = "wait"]
    ELSE LoopFinally(c)

\* a LoopAfterWait without the test of stopping
LoopAfterWait_IgnoreStop(c) ==
    IF ~c.forceCurrentCycle /\ c.ready
    THEN LoopFinally(c)
    ELSE [destroy(c) EXCEPT !.loopPc = "login"]

\* runReconnectLoop: after the delay, up to the await of client.login
LoopAfterWait(c) ==
    IF c.stopping \/ (~c.forceCurrentCycle /\ c.ready)
    THEN LoopFinally(c)
    ELSE [destroy(c) EXCEPT !.loopPc = "login"]

\* runReconnectLoop: the finally block
LoopFinally(c) ==
    LET c1 == [c EXCEPT !.reconnectPromise = FALSE, !.loopPc = "none"] IN
    IF ~c1.stopping /\ ~c1.ready /\ c1.reconnectReason
    THEN requestReconnect(c1, c1.forceReconnectRequested)
    ELSE c1

\* a requestReconnect without the test of reconnectPromise
requestReconnect_NoGuard(c, force) ==
    IF c.stopping THEN c
    ELSE LET c1 == [c EXCEPT !.reconnectReason = TRUE,
                             !.forceReconnectRequested = @ \/ force]
         IN [LoopWhile(c1) EXCEPT !.reconnectPromise = TRUE]

\* requestReconnect: runReconnectLoop() runs up to its first await (or to
\* its end) before its promise is assigned to reconnectPromise
requestReconnect(c, force) ==
    IF c.stopping THEN c
    ELSE LET c1 == [c EXCEPT !.reconnectReason = TRUE,
                             !.forceReconnectRequested = @ \/ force]
         IN IF c1.reconnectPromise THEN c1
            ELSE [LoopWhile(c1) EXCEPT !.reconnectPromise = TRUE]

\* start(): the callback given to waitUntilReady(reconnectGraceMs).then
StartThen(c) ==
    IF c.waitResult["start"] = "true" \/ c.stopping THEN c
    ELSE requestReconnect(c, FALSE)

\* the continuations of the waiters in `resolved`
Continue(c, resolved) ==
    LET c1 == IF "start" \in resolved THEN StartThen([c EXCEPT !.startPc = "done"]) ELSE c
    IN IF "loop" \in resolved THEN LoopWhile(c1) ELSE c1

ConnEnvStep == connEnv > 0 /\ connEnv' = connEnv - 1

ConnRest == UNCHANGED <<events, now, daemonVars, busOnlyVars, unitVars, offsetVars, fifoVars>>

\* start(), up to the await of client.login
ConnStart ==
    /\ ~conn.started
    /\ conn' = [conn EXCEPT !.started = TRUE, !.stopping = FALSE, !.startPc = "login"]
    /\ UNCHANGED connEnv /\ ConnRest

\* start(): client.login settles
StartLoginSettle(ok) ==
    /\ conn.startPc = "login"
    /\ conn' = IF ok
               THEN LET c1 == waitUntilReady([conn EXCEPT !.connecting = TRUE], "start") IN
                    IF "start" \in c1.waiters THEN [c1 EXCEPT !.startPc = "grace"]
                    ELSE Continue(c1, {"start"})
               ELSE requestReconnect([conn EXCEPT !.startPc = "done"], FALSE)
    /\ UNCHANGED connEnv /\ ConnRest

\* runReconnectLoop: the delay before an attempt is over
LoopWaitDone ==
    /\ conn.loopPc = "wait"
    /\ conn' = LoopAfterWait(conn)
    /\ UNCHANGED connEnv /\ ConnRest

\* runReconnectLoop: client.login settles
LoopLoginSettle(ok) ==
    /\ conn.loopPc = "login"
    /\ conn' = IF ok
               THEN LET c1 == waitUntilReady([conn EXCEPT !.connecting = TRUE], "loop") IN
                    IF "loop" \in c1.waiters THEN [c1 EXCEPT !.loopPc = "grace"]
                    ELSE Continue(c1, {"loop"})
               ELSE LoopWhile(conn)
    /\ UNCHANGED connEnv /\ ConnRest

\* waitUntilReady: the timer of waiter w fires
WaitTimeout(w) ==
    /\ w \in conn.timers
    /\ conn' = Continue([conn EXCEPT !.timers = @ \ {w}, !.waiters = @ \ {w},
                                     !.waitResult[w] = "false"],
                        {w} \cap conn.waiters)
    /\ UNCHANGED connEnv /\ ConnRest

\* the client becomes ready and emits clientReady
ClientReadyEvent ==
    /\ conn.started /\ ~conn.ready /\ conn.connecting
    /\ conn' = Continue(resolveWaiters([conn EXCEPT !.ready = TRUE,
                                                    !.connecting = FALSE,
                                                    !.attempt = 0,
                                                    !.reconnectReason = FALSE,
                                                    !.forceReconnectRequested = FALSE,
                                                    !.consecutiveHighPingCount = 0],
                                       "true"),
                        conn.waiters)
    /\ UNCHANGED connEnv /\ ConnRest

\* the gateway connection is lost; the client library may or may not try
\* to connect again by itself
GatewayDrop(retries) ==
    /\ conn.ready
    /\ ConnEnvStep
    /\ conn' = [conn EXCEPT !.ready = FALSE, !.connecting = retries]
    /\ ConnRest

\* the client emits shardDisconnect
ShardDisconnectEvent ==
    /\ conn.started
    /\ ConnEnvStep
    /\ conn' = requestReconnect(conn, FALSE)
    /\ ConnRest

\* the client emits error or shardError
ClientErrorEvent ==
    /\ conn.started
    /\ ConnEnvStep
    /\ conn' = IF ~conn.ready THEN requestReconnect(conn, FALSE) ELSE conn
    /\ ConnRest

\* stop(), and the handler of the client's invalidated event
ConnStop ==
    /\ conn.started /\ ~conn.stopping
    /\ ConnEnvStep
    /\ conn' = Continue(destroy(resolveWaiters([conn EXCEPT !.stopping = TRUE,
                                                            !.reconnectReason = FALSE,
                                                            !.forceReconnectRequested = FALSE],
                                               "false")),
                        conn.waiters)
    /\ ConnRest

HIGH_PING_CONSECUTIVE_LIMIT == 3

\* the heartbeat interval fires: runHeartbeatCheck with diagnoseConnectionHealth
HeartbeatTick(pingHigh) ==
    /\ conn.started /\ ~conn.stopping
    /\ conn' = IF conn.reconnectPromise THEN conn
               ELSE IF ~conn.ready THEN requestReconnect(conn, TRUE)
               ELSE LET c1 == [conn EXCEPT !.consecutiveHighPingCount =
                                               IF pingHigh THEN @ + 1 ELSE 0]
                    IN IF c1.consecutiveHighPingCount >= HIGH_PING_CONSECUTIVE_LIMIT
                       THEN requestReconnect(c1, TRUE)
                       ELSE c1
    /\ UNCHANGED connEnv /\ ConnRest

\* an outside caller calls waitUntilReady
CallWaitUntilReady(w) ==
    /\ conn.started
    /\ w \notin conn.waiters /\ w \notin conn.timers
    /\ ConnEnvStep
    /\ conn' = waitUntilReady(conn, w)
    /\ ConnRest

InitConn ==
    /\ StoreOff
    /\ OffsetOff
    /\ FifoOff
    /\ UnitOff
    /\ conn = NewConn
    /\ connEnv = MaxConnEnv

NextConn ==
    \/ ConnStart
    \/ \E ok \in BOOLEAN : StartLoginSettle(ok)
    \/ LoopWaitDone
    \/ \E ok \in BOOLEAN : LoopLoginSettle(ok)
    \/ \E w \in WaiterIds : WaitTimeout(w)
    \/ ClientReadyEvent
    \/ \E retries \in BOOLEAN : GatewayDrop(retries)
    \/ ShardDisconnectEvent
    \/ ClientErrorEvent
    \/ ConnStop
    \/ \E pingHigh \in BOOLEAN : HeartbeatTick(pingHigh)
    \/ \E w \in {"c1", "c2"} : CallWaitUntilReady(w)

\* timers fire and the promises of the client settle
ConnFairness ==
    /\ WF_vars(\E ok \in BOOLEAN : StartLoginSettle(ok))
    /\ WF_vars(LoopWaitDone)
    /\ WF_vars(\E ok \in BOOLEAN : LoopLoginSettle(ok))
    /\ \A w \in WaiterIds : WF_vars(WaitTimeout(w))
    /\ WF_vars(\E pingHigh \in BOOLEAN : HeartbeatTick(pingHigh))

SpecConn == InitConn /\ [][NextConn]_vars /\ ConnFairness

LoginInFlight == conn.startPc = "login" \/ conn.loopPc = "login"

\* C19 (as claimed): while the supervisor is started and not stopping,
\* whenever the client is not ready a login attempt is eventually made (or
\* the client becomes ready, or the supervisor is stopped), whatever the
\* order of the client's events.
C19_KeepsReconnecting ==
    (conn.started /\ ~conn.stopping /\ ~conn.ready)
        ~> (LoginInFlight \/ conn.ready \/ conn.stopping)

\* reconnectPromise is set although no reconnect loop is running
LoopDangling == conn.reconnectPromise /\ conn.loopPc = "none"

\* C19 outside the dangling state: the same statement holds from every
\* state in which reconnectPromise is null or its loop is running.
C19_ReconnectsUnlessDangling ==
    (conn.started /\ ~conn.stopping /\ ~conn.ready /\ ~LoopDangling)
        ~> (LoginInFlight \/ conn.ready \/ conn.stopping)

\* the dangling state is left by no step, and no step taken in it starts a
\* login: requestReconnect and runHeartbeatCheck return at their test of
\* reconnectPromise, which only the finally block of a running loop clears.
C19_DanglingIsPermanent ==
    [][LoopDangling => (LoopDangling' /\ (conn'.loopPc = "login") = FALSE)]_vars

\* the step is a waitUntilReady call made as w
WaitCalledAs(w) ==
    CASE w = "loop" -> LoopLoginSettle(TRUE)
      [] w = "start" -> StartLoginSettle(TRUE)
      [] OTHER -> CallWaitUntilReady(w)

\* every pending call has its waiter registered with one live timer, and
\* no timer is left for a call that has settled
C20_OneTimerEach ==
    /\ conn.timers = conn.waiters
    /\ \A w \in WaiterIds : conn.waitResult[w] = "pending" <=> w \in conn.waiters

C20_Step ==
    \A w \in WaiterIds :
        /\ (conn.waitResult[w] # "pending" /\ conn'.waitResult[w] # conn.waitResult[w])
              => /\ WaitCalledAs(w)
                 /\ conn'.waitResult[w] = IF conn.ready THEN "true"
                                          ELSE IF conn.stopping THEN "false" ELSE "pending"
        /\ (conn.waitResult[w] = "pending" /\ conn'.waitResult[w] # "pending")
              => /\ conn'.waitResult[w] = "true" <=> (~conn.ready /\ conn'.ready)
                 /\ conn'.waitResult[w] = "false" <=>
                        \/ ~conn.stopping /\ conn'.stopping
                        \/ conn'.timers = conn.timers \ {w} /\ conn'.stopping = conn.stopping
                           /\ conn'.ready = conn.ready

\* C20: every waitUntilReady call settles exactly once: at once with true
\* when the client is ready and with false when the supervisor is stopping;
\* otherwise with true at the next ready event, or with false when its
\* timer fires or the supervisor is stopped or invalidated first; a settled
\* call is not settled again, and no call stays pending forever.
C20_WaitersSettle ==
    /\ []C20_OneTimerEach
    /\ [][C20_Step]_vars
    /\ \A w \in WaiterIds :
          (conn.waitResult[w] = "pending") ~> (conn.waitResult[w] # "pending")

\* C20 witness: one outside call returned true, the other false, and the
\* supervisor was stopped while the reconnect loop waited for ready
C20_Witness ==
    /\ conn.waitResult["c1"] = "true"
    /\ conn.waitResult["c2"] = "false"
    /\ conn.waitResult["loop"] = "false"
    /\ conn.stopping

-----------------------------------------------------------------------------
(* SpecWrap: one call of runWithEmptyResponseRetry (core/claude-retry.ts)   *)
(* with a runner that answers any text or throws.  A text is the sequence   *)
(* of its characters; a step is the code between two awaits.                *)

MaxResponseLen == 2

EMPTY_RESPONSE_MAX_RETRIES == 3
EMPTY_RESPONSE_RETRY_DELAY_MS == 1000

WrapChars == {" ", "x"}

IsWhitespace(c) == c \in {" ", "\n"}

RECURSIVE TextsOfLen(_, _)
TextsOfLen(chars, n) ==
    IF n = 0 THEN {<<>>}
    ELSE {Append(t, c) : t \in TextsOfLen(chars, n - 1), c \in chars}

Responses == UNION {TextsOfLen(WrapChars, n) : n \in 0..MaxResponseLen}

\* String.prototype.trim
RECURSIVE trimStart(_)
trimStart(text) ==
    IF text # <<>> /\ IsWhitespace(Head(text)) THEN trimStart(Tail(text)) ELSE text

RECURSIVE trimEnd(_)
trimEnd(text) ==
    IF text # <<>> /\ IsWhitespace(text[Len(text)])
    THEN trimEnd(SubSeq(text, 1, Len(text) - 1))
    ELSE text

trim(text) == trimEnd(trimStart(text))

\* options.maxRetries ?? EMPTY_RESPONSE_MAX_RETRIES, options.delayMs ?? ...
OrDefault(option, default) == IF option = Undefined THEN default ELSE option[1]

WrapMaxRetryOptions == {Undefined, <<0>>, <<1>>, <<2>>}
WrapDelayOptions == {Undefined, <<0>>, <<5>>}

\* what a call of runner came to: <<response>>, or nothing when it threw
Threw == <<>>

\* the for loop from its test to the next await, or to the return after it
WrapLoopTest(w) ==
    IF w.attempt <= w.maxRetries + 1
    THEN [w EXCEPT !.pc = "runner", !.trace = Append(@, "call")]
    ELSE [w EXCEPT !.pc = "returned",
                   !.returned = <<[result |-> w.lastResult, attempts |-> w.maxRetries + 1]>>]

\* a wrapper that sleeps after every empty response, the last one too
WrapAfterRunner_SleepAlways(w, response) ==
    LET w1 == [w EXCEPT !.lastResult = <<response>>, !.calls = Append(@, <<response>>)] IN
    IF Len(trim(response)) > 0
    THEN [w1 EXCEPT !.pc = "returned",
                    !.returned = <<[result |-> <<response>>, attempts |-> w.attempt]>>]
    ELSE [w1 EXCEPT !.pc = "sleep", !.sleeps = Append(@, w.delayMs),
                    !.trace = Append(@, "sleep")]

\* the loop body after `await runner()` has returned `response`
WrapAfterRunner(w, response) ==
    LET w1 == [w EXCEPT !.lastResult = <<response>>, !.calls = Append(@, <<response>>)] IN
    IF Len(trim(response)) > 0
    THEN [w1 EXCEPT !.pc = "returned",
                    !.returned = <<[result |-> <<response>>, attempts |-> w.attempt]>>]
    ELSE IF w.attempt < w.maxRetries + 1
    THEN [w1 EXCEPT !.pc = "sleep", !.sleeps = Append(@, w.delayMs),
                    !.trace = Append(@, "sleep")]
    ELSE WrapLoopTest([w1 EXCEPT !.attempt = @ + 1])

WrapRest == UNCHANGED <<events, now, daemonVars, busOnlyVars, offsetVars, fifoVars, connVars,
                        mainSession, directSent, fmt, delays, claude>>

\* runWithEmptyResponseRetry(runner, options, sleep), up to the first await
WrapCall(maxRetries, delayMs) ==
    /\ wrap.pc = "none"
    /\ wrap' = WrapLoopTest([wrap EXCEPT
                   !.optMaxRetries = maxRetries,
                   !.maxRetries = OrDefault(maxRetries, EMPTY_RESPONSE_MAX_RETRIES),
                   !.delayMs = OrDefault(delayMs, EMPTY_RESPONSE_RETRY_DELAY_MS),
                   !.attempt = 1])
    /\ WrapRest

\* runner() resolves
RunnerResolve(response) ==
    /\ wrap.pc = "runner"
    /\ wrap' = WrapAfterRunner(wrap, response)
    /\ WrapRest

\* runner() rejects: the await throws out of the function
RunnerReject ==
    /\ wrap.pc = "runner"
    /\ wrap' = [wrap EXCEPT !.pc = "rejected", !.calls = Append(@, Threw)]
    /\ WrapRest

\* sleep(delayMs) resolves
WrapSleepDone ==
    /\ wrap.pc = "sleep"
    /\ wrap' = WrapLoopTest([wrap EXCEPT !.attempt = @ + 1])
    /\ WrapRest

InitWrap ==
    /\ StoreOff
    /\ ExtOff

NextWrap ==
    \/ \E maxRetries \in WrapMaxRetryOptions, delayMs \in WrapDelayOptions :
          WrapCall(maxRetries, delayMs)
    \/ \E response \in Responses : RunnerResolve(response)
    \/ RunnerReject
    \/ WrapSleepDone

SpecWrap == InitWrap /\ [][NextWrap]_vars

\* the calls of runner made so far, settled or not
WrapCallsMade == Cardinality({k \in 1..Len(wrap.trace) : wrap.trace[k] = "call"})

\* the settled calls that answered a text that is not empty once trimmed
WrapNonEmpty ==
    {k \in 1..Len(wrap.calls) : wrap.calls[k] # Threw /\ trim(wrap.calls[k][1]) # <<>>}

\* C21: the wrapper calls the runner at most 1 + maxRetries times (4 with
\* the default); it returns the result of the first call whose trimmed
\* response is not empty, or else the last result, and reports the number
\* of calls made; between two consecutive calls it sleeps the configured
\* delay exactly once and it never sleeps after the call it returns; a
\* runner error ends the wrapper without another call.
C21_RetryContract ==
    /\ WrapCallsMade <= 1 + wrap.maxRetries
    /\ wrap.optMaxRetries = Undefined => WrapCallsMade <= 4
    /\ \A k \in 1..Len(wrap.trace) :
          /\ (k % 2 = 1) = (wrap.trace[k] = "call")
          /\ (k % 2 = 0) = (wrap.trace[k] = "sleep")
    /\ \A k \in 1..Len(wrap.sleeps) : wrap.sleeps[k] = wrap.delayMs
    /\ Len(wrap.sleeps) = Cardinality({k \in 1..Len(wrap.trace) : wrap.trace[k] = "sleep"})
    /\ wrap.pc = "returned" =>
          /\ Len(wrap.returned) = 1
          /\ wrap.returned[1].attempts = WrapCallsMade
          /\ Len(wrap.calls) = WrapCallsMade
          /\ Len(wrap.sleeps) = WrapCallsMade - 1
          /\ wrap.trace[Len(wrap.trace)] = "call"
          /\ wrap.returned[1].result = wrap.calls[Len(wrap.calls)]
          /\ WrapNonEmpty \subseteq {Len(wrap.calls)}
          /\ WrapNonEmpty = {} => WrapCallsMade = 1 + wrap.maxRetries
    /\ wrap.pc = "rejected" =>
          /\ wrap.calls[Len(wrap.calls)] = Threw
          /\ Len(wrap.calls) = WrapCallsMade
          /\ wrap.trace[Len(wrap.trace)] = "call"
          /\ wrap.returned = <<>>

\* the runner answered blank text twice and then a text: three calls, two
\* sleeps of the configured delay
C21_Witness ==
    /\ wrap.pc = "returned"
    /\ wrap.returned[1].attempts = 3
    /\ wrap.sleeps = <<wrap.delayMs, wrap.delayMs>>
    /\ wrap.returned[1].result = <<(<<"x">>)>>

\* every call answered blank text: the last result is returned after
\* 1 + maxRetries calls made with the default options
C21_WitnessExhausted ==
    /\ wrap.pc = "returned"
    /\ wrap.optMaxRetries = Undefined
    /\ wrap.returned[1].attempts = 4
    /\ wrap.sleeps = <<1000, 1000, 1000>>
    /\ trim(wrap.returned[1].result[1]) = <<>>

\* the runner threw on the second call
C21_WitnessRunnerError ==
    /\ wrap.pc = "rejected"
    /\ WrapCallsMade = 2

-----------------------------------------------------------------------------
(* SpecStale: the store with workers that take locks and a clock that      *)
(* moves in steps shorter than the one-second floor of                      *)
(* requeueStaleProcessing, which is called with any timeout at any moment.  *)

StaleTickMs == 600

StaleLockTimeouts == {500, 2000}

\* requeueStaleProcessing: Number(result.changes ?? 0), the rows the UPDATE matched
requeueStaleCount(ev, lockTimeoutMs, t) == Cardinality(Stale(ev, lockTimeoutMs, t))

\* requeueStaleProcessing(lockTimeoutMs), whether or not a row is stale
StaleRequeue(lockTimeoutMs) ==
    /\ BusOp
    /\ events' = requeueStaleProcessing(events, lockTimeoutMs, now)
    /\ holders' = ReleaseAll(holders, Stale(events, lockTimeoutMs, now))
    /\ UNCHANGED <<now, busHeld, daemonVars, extVars>>

StaleTick ==
    /\ BusOp
    /\ now' = now + StaleTickMs
    /\ UNCHANGED <<events, busHeld, holders, daemonVars, extVars>>

StaleInputs ==
    {BusInput("interactive", 0, NULL, 1, NoTime),
     BusInput("system", 0, "k1", 2, NoTime)}

NextStale ==
    \/ \E input \in StaleInputs : BusPublish(input)
    \/ \E w \in Workers : BusClaimNext(w)
    \/ \E w \in Workers : BusMarkDone(w)
    \/ \E w \in Workers : BusMarkRetry(w, 1000)
    \/ \E w \in Workers : BusMarkDead(w)
    \/ \E lockTimeoutMs \in StaleLockTimeouts : StaleRequeue(lockTimeoutMs)
    \/ StaleTick

SpecStale == InitBus /\ [][NextStale]_vars

\* the rows in processing whose lock was taken more than `age` ms ago
C22_LockedLongerThan(age) ==
    {i \in Ids(events) : /\ events[i].status = "processing"
                         /\ events[i].locked_at # NoTime
                         /\ now - events[i].locked_at > age}

\* a call with lockTimeoutMs resets exactly the rows locked longer than
\* `age`, leaves every other row as it was, and returns their number
C22_Resets(lockTimeoutMs, age) ==
    /\ Len(events') = Len(events)
    /\ \A i \in Ids(events) :
          IF i \in C22_LockedLongerThan(age)
          THEN /\ events'[i] = [events[i] EXCEPT
                                   !.status = "retry",
                                   !.locked_by = NULL,
                                   !.locked_at = NoTime,
                                   !.available_at = events'[i].available_at,
                                   !.last_error = events'[i].last_error]
               /\ i \in Claimable(events', now')
          ELSE events'[i] = events[i]
    /\ requeueStaleCount(events, lockTimeoutMs, now) =
          Cardinality({i \in Ids(events) : events'[i] # events[i]})
    /\ requeueStaleCount(events, lockTimeoutMs, now) =
          Cardinality(C22_LockedLongerThan(age))

\* C22 (as claimed): requeue_stale_processing(timeout) resets exactly the
\* rows in processing whose lock is older than the timeout given: each
\* becomes retry with null lock fields and is claimable at once, every
\* other row is unchanged, and the number of rows reset is returned.
C22_ResetsOlderThanTimeout ==
    [][\A t \in StaleLockTimeouts : StaleRequeue(t) => C22_Resets(t, t)]_vars

\* C22 (as the code has it): the same, for the rows whose lock is older
\* than the timeout given or one second, whichever is longer.
C22_ResetsOlderThanFlooredTimeout ==
    [][\A t \in StaleLockTimeouts : StaleRequeue(t) => C22_Resets(t, Max(1000, t))]_vars

\* a call has reset a row (last_error tells) that is claimable again, while
\* another row is still in processing
C22_Witness ==
    /\ \E i \in Ids(events) : /\ events[i].status = "retry"
                              /\ events[i].last_error = "stale_processing_requeued"
                              /\ events[i].locked_by = NULL
                              /\ events[i].available_at <= now
    /\ \E i \in Ids(events) : events[i].status = "processing"

-----------------------------------------------------------------------------
(* SpecReset: the daemon with a user who sends texts and !reset commands;  *)
(* the platform may fail a call, the process may die.                       *)

MaxResetEnv == 2
MaxResetFaults == 1

ResetMessageKinds == {"text", "reset"}

\* processDmMessage for a text: sendToClaude has stored the session id of
\* the run; the reply is published, then handleDmIncoming marks processing done
TextAgentDone(chunks) ==
    /\ procUp /\ pc = "dm_agent"
    /\ mainSession' = TRUE
    /\ Apply(SegCheck(publish(events, ReplyInput(CurMessage, chunks), now).events,
                      markProcessingDone(dm, CurMessage), cur, CurMessage))
    /\ UNCHANGED <<now, offset, channel, sent, procUp, ready, env, faultsLeft, missed,
                   busOnlyVars, offsetVars, fifoVars, connVars, pureVars, directSent>>

\* processDmMessage for !reset: clearSession settles (it swallows its own
\* errors); channel.send of the confirmation is awaited next
ResetClearDone ==
    /\ procUp /\ pc = "dm_reset_clear"
    /\ mainSession' = FALSE
    /\ pc' = "dm_reset_send"
    /\ UNCHANGED <<events, now, dm, offset, channel, sent, procUp, ready, cur, frame, env,
                   faultsLeft, missed, busOnlyVars, offsetVars, fifoVars, connVars, pureVars,
                   directSent>>

\* processDmMessage for !reset: channel.send settles.  Sent: processDmMessage
\* returns and handleDmIncoming marks processing done.  Failed: the error is
\* no RetryableEventError, so handleDmIncoming records it and awaits the
\* error reaction.
ResetSendDone(o) ==
    /\ procUp /\ pc = "dm_reset_send"
    /\ Outcome(o)
    /\ IF o = "ok"
       THEN /\ directSent' = Append(directSent, CurMessage)
            /\ Apply(SegCheck(events, markProcessingDone(dm, CurMessage), cur, CurMessage))
       ELSE /\ directSent' = directSent
            /\ Apply(Conf(events, setDmLastError(dm, CurMessage, "terminal"),
                          "dm_errreact", cur, NoFrame))
    /\ UNCHANGED <<now, offset, channel, sent, procUp, ready, env, missed,
                   busOnlyVars, offsetVars, fifoVars, connVars, pureVars, mainSession>>

InitReset ==
    /\ Fresh
    /\ env = MaxResetEnv
    /\ faultsLeft = MaxResetFaults

NextReset ==
    \/ WorkerIterate
    \/ \E o \in CallOutcomes : DmFetchDone(o)
    \/ \E o \in CallOutcomes : DmEyeDone(o)
    \/ TextAgentDone(1)
    \/ DmAgentFail
    \/ ResetClearDone
    \/ \E o \in CallOutcomes : ResetSendDone(o)
    \/ DmErrReactDone
    \/ \E o \in CallOutcomes : DmCheckDone(o)
    \/ \E o \in CallOutcomes : OutSendDone(o)
    \/ \E o \in CallOutcomes : RecPageDone(o)
    \/ Crash
    \/ Start
    \/ ClientReady
    \/ \E kind \in ResetMessageKinds : UserSend(kind)
    \/ TickToAvailable
    \/ TickToStale

SpecReset == InitReset /\ [][NextReset]_vars

ResetMessages == {m \in 1..Len(channel) : channel[m] = "reset"}

\* C23: the handler of a DM whose content is !reset clears the main session
\* file and then sends the confirmation to the channel itself; it never
\* submits a call to the agent CLI and never publishes an outbound event
\* (no reply and no error notice), whether its calls succeed or fail.
C23_ResetIsLocal ==
    /\ \A i \in Ids(events), m \in ResetMessages :
          events[i].type = "outbound.dm.request" =>
              events[i].payload.requestId \notin {ReplyRequestId(m), ErrorRequestId(m)}
    /\ pc = "dm_agent" => CurMessage \notin ResetMessages
    /\ pc \in {"dm_reset_clear", "dm_reset_send"} => CurMessage \in ResetMessages
    /\ pc = "dm_reset_send" => ~mainSession
    /\ \A m \in ResetMessages :
          (m \in DOMAIN dm /\ dm[m].processing_done) =>
              \E k \in 1..Len(directSent) : directSent[k] = m
    /\ \A k \in 1..Len(directSent) : directSent[k] \in ResetMessages

\* a text was answered by the agent (a session exists), then a !reset was
\* handled to the end: session cleared, confirmation sent, check reaction on
C23_Witness ==
    /\ Len(channel) = 2 /\ channel[1] = "text" /\ channel[2] = "reset"
    /\ 2 \in DOMAIN dm /\ dm[2].processing_done /\ dm[2].check_applied
    /\ directSent = <<2>>
    /\ ~mainSession
    /\ OutboundRows(ReplyRequestId(1)) # {}

\* the confirmation could not be sent: the event is dead, no notice queued
C23_WitnessSendFailed ==
    /\ \E m \in ResetMessages :
          /\ m \in DOMAIN dm /\ dm[m].eye_applied /\ dm[m].terminal_failed
          /\ ~dm[m].processing_done
          /\ OutboundRows(ErrorRequestId(m)) = {}
    /\ directSent = <<>>

-----------------------------------------------------------------------------
(* SpecSend: one run of handleOutboundDmRequest on any request that the    *)
(* program publishes, with a platform that may fail any send.  The length  *)
(* limit of a message is scaled down to MaxChunkLen characters; a text is  *)
(* the sequence of its characters.                                          *)

\* stands for DISCORD_MAX_LENGTH (2000)
MaxChunkLen == 3

MaxTextLen == 7

SendChars == {"a", " ", "\n"}

SendTexts == UNION {TextsOfLen(SendChars, n) : n \in 0..MaxTextLen}

\* stands for the text of EMPTY_RESPONSE_FALLBACK_MESSAGE
EMPTY_RESPONSE_FALLBACK_MESSAGE == <<"(", "no response", ")">>

\* String.prototype.lastIndexOf(c, fromIndex), positions counted from 0
lastIndexOf(text, c, fromIndex) ==
    LET found == {k \in 0..Min(fromIndex, Len(text) - 1) : text[k + 1] = c} IN
    IF found = {} THEN 0 - 1 ELSE CHOOSE k \in found : \A j \in found : j <= k

\* String.prototype.slice(start, end) and slice(start), positions counted from 0
slice(text, start, end) == SubSeq(text, start + 1, end)

\* a split index that is one past the limit when no newline or space is found
splitIndexOf_Overlong(remaining) ==
    LET atNewline == lastIndexOf(remaining, "\n", MaxChunkLen)
        atSpace == IF atNewline <= 0 THEN lastIndexOf(remaining, " ", MaxChunkLen)
                   ELSE atNewline
    IN IF atSpace <= 0 THEN MaxChunkLen + 1 ELSE atSpace

\* splitMessage: the split index of a remainder longer than the limit
splitIndexOf(remaining) ==
    LET atNewline == lastIndexOf(remaining, "\n", MaxChunkLen)
        atSpace == IF atNewline <= 0 THEN lastIndexOf(remaining, " ", MaxChunkLen)
                   ELSE atNewline
    IN IF atSpace <= 0 THEN MaxChunkLen ELSE atSpace

\* splitMessage: the while loop
RECURSIVE SplitLoop(_, _)
SplitLoop(chunks, remaining) ==
    IF Len(remaining) = 0 THEN chunks
    ELSE IF Len(remaining) <= MaxChunkLen
    THEN IF Len(trim(remaining)) > 0 THEN Append(chunks, remaining) ELSE chunks
    ELSE LET splitIndex == splitIndexOf(remaining)
             chunk == slice(remaining, 0, splitIndex)
         IN SplitLoop(IF Len(trim(chunk)) > 0 THEN Append(chunks, chunk) ELSE chunks,
                      trimStart(slice(remaining, splitIndex, Len(remaining))))

\* chunks.filter((chunk) => chunk.trim().length > 0)
NonBlank(chunks) == SelectSeq(chunks, LAMBDA chunk : Len(trim(chunk)) > 0)

splitMessage(text) ==
    IF Len(trim(text)) = 0 THEN <<>>
    ELSE IF Len(text) <= MaxChunkLen THEN <<text>>
    ELSE NonBlank(SplitLoop(<<>>, text))

\* a policy with the fallback for every source
fallbackMessageOf_EverySource(source) == EMPTY_RESPONSE_FALLBACK_MESSAGE

\* resolveOutboundDmDeliveryPolicy(source).fallbackMessage; <<>>: none
fallbackMessageOf(source) ==
    IF source = "scheduler" THEN <<>> ELSE EMPTY_RESPONSE_FALLBACK_MESSAGE

\* a message handed to the platform: its text (<<>>: none) and its files
PlainMessage(content) == [content |-> content, files |-> 0]

\* the requests published: replies and error notices to the channel of the
\* DM, scheduler results and manual sends to a user, files on manual sends
\* only; a manual send carries a trimmed text, or files, or both
SendRequests ==
    {r \in [source : {"dm_reply", "auth_error", "scheduler", "manual_send"},
            target : {"channel", "user"}, files : {0, 1}, text : SendTexts] :
        /\ r.target = "channel" <=> r.source \in {"dm_reply", "auth_error"}
        /\ r.files > 0 => r.source = "manual_send"
        /\ r.source = "manual_send" =>
              /\ r.text = trim(r.text)
              /\ r.text # <<>> \/ r.files > 0}

\* sendChunksWithFallback / sendUserMessageWithOptionalFiles from the entry
\* or from a settled send to the next await of sender, or to the return
SendNext(f) ==
    IF f.files > 0 /\ f.target = "user" /\ f.i = 0
    THEN [f EXCEPT !.pc = "send", !.i = 1,
                   !.sends = Append(@, [content |-> IF f.chunks = <<>> THEN <<>>
                                                    ELSE f.chunks[1],
                                        files |-> f.files])]
    ELSE IF f.chunks = <<>> /\ f.i = 0
    THEN IF Len(trim(fallbackMessageOf(f.source))) > 0
         THEN [f EXCEPT !.pc = "send", !.i = 1,
                        !.sends = Append(@, PlainMessage(trim(fallbackMessageOf(f.source))))]
         ELSE [f EXCEPT !.pc = "returned"]
    ELSE IF f.i < Len(f.chunks)
    THEN [f EXCEPT !.pc = "send", !.i = @ + 1,
                   !.sends = Append(@, PlainMessage(f.chunks[f.i + 1]))]
    ELSE [f EXCEPT !.pc = "returned"]

SendRest == UNCHANGED <<events, now, daemonVars, busOnlyVars, offsetVars, fifoVars, connVars,
                        mainSession, directSent, wrap, delays, claude>>

\* handleOutboundDmRequest: the fetch of the channel or user has settled;
\* the text is split and the first send awaited
OutboundStart(r) ==
    /\ fmt.pc = "none"
    /\ fmt' = SendNext([fmt EXCEPT !.source = r.source, !.target = r.target,
                                   !.text = r.text, !.files = r.files,
                                   !.chunks = NonBlank(splitMessage(r.text))])
    /\ SendRest

\* sender(...) settles; a rejection leaves the handler
SenderSettle(ok) ==
    /\ fmt.pc = "send"
    /\ fmt' = IF ok THEN SendNext(fmt)
              ELSE [fmt EXCEPT !.pc = "threw", !.sends = SubSeq(@, 1, Len(@) - 1)]
    /\ SendRest

InitSend ==
    /\ StoreOff
    /\ ExtOff

NextSend ==
    \/ \E r \in SendRequests : OutboundStart(r)
    \/ \E ok \in BOOLEAN : SenderSettle(ok)

SpecSend == InitSend /\ [][NextSend]_vars

\* t is the chunks in order with nothing but whitespace between, before
\* and after them
RECURSIVE C25_Covers(_, _)
C25_Covers(t, chunks) ==
    IF chunks = <<>> THEN \A k \in 1..Len(t) : IsWhitespace(t[k])
    ELSE \/ /\ Len(t) >= Len(Head(chunks))
            /\ SubSeq(t, 1, Len(Head(chunks))) = Head(chunks)
            /\ C25_Covers(SubSeq(t, Len(Head(chunks)) + 1, Len(t)), Tail(chunks))
         \/ /\ t # <<>>
            /\ IsWhitespace(Head(t))
            /\ C25_Covers(Tail(t), chunks)

\* C25: for every text, splitMessage ends (every cut of a remainder longer
\* than the limit takes between 1 and limit characters) and returns chunks
\* that are each at most the limit long and not all whitespace, and the
\* text is the chunks in order with only whitespace dropped between them.
C25_SplitContract ==
    fmt.pc # "none" =>
        LET chunks == splitMessage(fmt.text) IN
        /\ Len(fmt.text) > MaxChunkLen => splitIndexOf(fmt.text) \in 1..MaxChunkLen
        /\ \A k \in 1..Len(chunks) :
              /\ Len(chunks[k]) <= MaxChunkLen
              /\ \E j \in 1..Len(chunks[k]) : ~IsWhitespace(chunks[k][j])
        /\ C25_Covers(fmt.text, chunks)
        /\ fmt.chunks = chunks

\* a text of more than twice the limit with a newline and a space in it was
\* split into three chunks at the newline, at the space and by a hard cut
C25_Witness ==
    /\ fmt.text = <<"a", "\n", "a", " ", "a", "a", "a">>
    /\ fmt.chunks = << <<"a">>, <<"a">>, <<"a", "a", "a">> >>

\* the messages a completed run has sent are `expected`; a run that is
\* under way or has thrown has sent the first of them
C24_Sent(expected) ==
    /\ Len(fmt.sends) <= Len(expected)
    /\ \A k \in 1..Len(fmt.sends) : fmt.sends[k] = expected[k]
    /\ fmt.pc = "returned" => Len(fmt.sends) = Len(expected)

\* the chunks as plain messages, the first one carrying `files` files
RECURSIVE C24_Plain(_)
C24_Plain(chunks) ==
    IF chunks = <<>> THEN <<>>
    ELSE <<PlainMessage(Head(chunks))>> \o C24_Plain(Tail(chunks))

\* what the claim has a request send: nothing (scheduler) or the fallback
\* text (any other source) when the text has no non-blank chunk, the chunks
\* in order otherwise
C24_Expected ==
    IF fmt.chunks = <<>>
    THEN IF fmt.source = "scheduler" THEN <<>>
         ELSE <<PlainMessage(trim(EMPTY_RESPONSE_FALLBACK_MESSAGE))>>
    ELSE C24_Plain(fmt.chunks)

\* the text of the k-th message is that of the k-th expected one
C24_SentTexts(expected) ==
    /\ Len(fmt.sends) <= Len(expected)
    /\ \A k \in 1..Len(fmt.sends) : fmt.sends[k].content = expected[k].content
    /\ fmt.pc = "returned" => Len(fmt.sends) = Len(expected)

\* C24 (as claimed): when the text of a request yields no non-blank chunk,
\* a scheduler-sourced request sends nothing and a request of any other
\* source sends exactly one message, the fallback text; when chunks exist,
\* exactly those chunks are sent in order and the fallback is not sent.
C24_FallbackOrChunks ==
    fmt.pc # "none" => C24_SentTexts(C24_Expected)

\* C24 (as the code has it): the same for a request without files; a
\* request with files sends the files in its first message, with the first
\* chunk if there is one, then the other chunks, and never the fallback.
C24_FallbackOrChunksOrFiles ==
    fmt.pc # "none" =>
        IF fmt.files = 0 \/ fmt.target = "channel"
        THEN C24_Sent(C24_Expected)
        ELSE C24_Sent(<<[content |-> IF fmt.chunks = <<>> THEN <<>> ELSE Head(fmt.chunks),
                         files |-> fmt.files]>>
                      \o (IF fmt.chunks = <<>> THEN <<>> ELSE C24_Plain(Tail(fmt.chunks))))

\* a blank reply to a DM was answered with the fallback text alone
C24_Witness ==
    /\ fmt.pc = "returned"
    /\ fmt.source = "dm_reply"
    /\ fmt.text = <<" ", "\n">>
    /\ fmt.sends = <<PlainMessage(EMPTY_RESPONSE_FALLBACK_MESSAGE)>>

\* a blank scheduler result sent nothing
C24_WitnessScheduler ==
    /\ fmt.pc = "returned"
    /\ fmt.source = "scheduler"
    /\ fmt.text = <<" ">>
    /\ fmt.sends = <<>>

\* a long text was sent as its chunks
C24_WitnessChunks ==
    /\ fmt.pc = "returned"
    /\ Len(fmt.chunks) = 3
    /\ fmt.sends = C24_Plain(fmt.chunks)

\* ---------------------------------------------------------------------------
\* SpecDelay: the two exponential delays, SqliteEventBus.calculateBackoffMs of
\* the event queue and calculateReconnectDelayMs of the connection manager,
\* each called with an attempt number of its own.
\* ---------------------------------------------------------------------------

MaxDelayAttempt == 30

INITIAL_RECONNECT_DELAY_MS == 1000
MAX_RECONNECT_DELAY_MS == 60000

\* the largest integer of the model checker; the code computes
\* INITIAL_RECONNECT_DELAY_MS * 2 ** (attempt - 1) in doubles, where the product
\* only grows with the attempt, so a product beyond this integer is kept as it
LargestInteger == 2147483647

\* INITIAL_RECONNECT_DELAY_MS * 2 ** exponent
ReconnectProduct(exponent) ==
    IF exponent > 21 THEN LargestInteger
    ELSE INITIAL_RECONNECT_DELAY_MS * Pow2(exponent)

\* calculateReconnectDelayMs
calculateReconnectDelayMs(attempt) ==
    IF attempt <= 1 THEN INITIAL_RECONNECT_DELAY_MS
    ELSE Min(ReconnectProduct(attempt - 1), MAX_RECONNECT_DELAY_MS)

DelayRest == UNCHANGED <<events, now, daemonVars, busOnlyVars, offsetVars, fifoVars, connVars,
                         mainSession, directSent, wrap, fmt, claude>>

\* a call of SqliteEventBus.calculateBackoffMs
BackoffCall ==
    /\ delays.backoff = NoTime
    /\ delays' = [delays EXCEPT !.backoff = calculateBackoffMs(delays.backoffAttempt)]
    /\ DelayRest

\* a call of calculateReconnectDelayMs
ReconnectDelayCall ==
    /\ delays.reconnect = NoTime
    /\ delays' = [delays EXCEPT !.reconnect = calculateReconnectDelayMs(delays.reconnectAttempt)]
    /\ DelayRest

InitDelay ==
    /\ StoreOff
    /\ OffsetOff
    /\ FifoOff
    /\ ConnOff
    /\ wrap = NoWrap
    /\ mainSession = FALSE
    /\ directSent = <<>>
    /\ fmt = NoSend
    /\ claude = NoClaude
    /\ \E a \in 1..MaxDelayAttempt, b \in 1..MaxDelayAttempt :
           delays = [backoffAttempt |-> a, backoff |-> NoTime,
                     reconnectAttempt |-> b, reconnect |-> NoTime]

NextDelay ==
    \/ BackoffCall
    \/ ReconnectDelayCall

SpecDelay == InitDelay /\ [][NextDelay]_vars

\* the claimed law: 1000, 2000, 4000, ..., 32000 for the attempts 1..6, and
\* 60000 from the attempt 7 on (1000 * 2^6 = 64000 is the first beyond the cap)
C26_Law(n) == IF n >= 7 THEN 60000 ELSE 1000 * Pow2(n - 1)

\* C26: for every attempt n >= 1 the queue's backoff and the connection
\* manager's reconnect delay are both min(1000 * 2^(n-1), 60000), hence equal
\* whenever the two functions were called with the same attempt.
C26_DelaysAgree ==
    /\ delays.backoff # NoTime => delays.backoff = C26_Law(delays.backoffAttempt)
    /\ delays.reconnect # NoTime => delays.reconnect = C26_Law(delays.reconnectAttempt)
    /\ (/\ delays.backoff # NoTime
        /\ delays.reconnect # NoTime
        /\ delays.backoffAttempt = delays.reconnectAttempt)
       => delays.backoff = delays.reconnect

\* both functions were called with the attempt 6 and both gave 32000, the
\* last value below the cap
C26_Witness ==
    /\ delays.backoffAttempt = 6
    /\ delays.reconnectAttempt = 6
    /\ delays.backoff = 32000
    /\ delays.reconnect = 32000

\* both functions were called with an attempt beyond the exponent cap of the
\* queue's backoff and both gave the cap
C26_WitnessCapped ==
    /\ delays.backoffAttempt = 12
    /\ delays.reconnectAttempt = 12
    /\ delays.backoff = 60000
    /\ delays.reconnect = 60000

-----------------------------------------------------------------------------
(* C27: the retry policy of the worker loop, under SpecRetry.              *)

\* the step ends the handler of the event i with a failure
C27_Failed(i) ==
    /\ events[i].status = "processing"
    /\ events'[i].status \in {"retry", "dead"}

\* C27: when the handler of an event whose attempt_count is a fails with a
\* non-terminal error (the only failures of SpecRetry), the event is marked
\* dead if a + 1 >= 20, and otherwise becomes retry with attempt_count a + 1
\* and available_at = the failure time + backoff_ms(a + 1) (no handler gives a
\* delay of its own); a retry row is not claimed before its available_at.
C27_RetryPolicy ==
    [][\A i \in Ids(events) :
        /\ C27_Failed(i) =>
              LET a == events[i].attempt_count IN
              IF a + 1 >= 20
              THEN events'[i].status = "dead"
              ELSE /\ events'[i].status = "retry"
                   /\ events'[i].attempt_count = a + 1
                   /\ events'[i].available_at = now + calculateBackoffMs(a + 1)
        /\ (events[i].status = "retry" /\ now' < events[i].available_at)
              => events'[i].status = "retry"]_vars

\* an event failed for the third time and waits for the third backoff
C27_Witness ==
    \E i \in Ids(events) :
        /\ events[i].status = "retry"
        /\ events[i].attempt_count = 3
        /\ events[i].available_at = now + 4000

\* an event is dead after its twentieth failure
C27_WitnessDead ==
    \E i \in Ids(events) :
        /\ events[i].status = "dead"
        /\ events[i].attempt_count = 20

-----------------------------------------------------------------------------
(* SpecGuard: the worker loop with its wait for the connection.  When      *)
(* isReady() is false at the top of an iteration the loop awaits            *)
(* waitUntilReady(60_000), which registers a waiter; the clientReady event  *)
(* resolves the waiters with true, a timer resolves this one with false.    *)
(* The continuation of the loop is a microtask of the event that resolved   *)
(* the waiter: it runs before any other event of the gateway is delivered.  *)

MaxGuardEnv == 3
MaxGuardFaults == 1

\* runWorkerLoop: the connection is not ready; await waitUntilReady(60_000)
WorkerWait ==
    /\ procUp /\ ~isReady(ready) /\ pc = "idle"
    /\ pc' = "wait_ready"
    /\ UNCHANGED <<events, now, dm, offset, channel, sent, procUp, ready, cur, frame, env,
                   faultsLeft, missed, busOnlyVars, extVars>>

\* waitUntilReady: the timer of the waiter fires and resolves it with false;
\* runWorkerLoop continues with the next iteration
WorkerWaitTimeout ==
    /\ procUp /\ pc = "wait_ready"
    /\ pc' = "idle"
    /\ UNCHANGED <<events, now, dm, offset, channel, sent, procUp, ready, cur, frame, env,
                   faultsLeft, missed, busOnlyVars, extVars>>

\* clientReady while the worker loop waits: enqueueRecovery, then
\* resolveWaiters(true); the loop goes on, after its await, with
\* requeueStaleProcessing and claimNext
ClientReadyResume ==
    /\ procUp /\ ~ready /\ pc = "wait_ready"
    /\ ready' = TRUE
    /\ LET ev0 == publish(events, RecoveryInput("client_ready", now), now).events
           ev1 == requeueStaleProcessing(ev0, STALE_LOCK_TIMEOUT_MS, now)
       IN \/ /\ ClaimFirst(ev1, now) = {}
             /\ events' = ev1
             /\ pc' = "idle"
             /\ UNCHANGED <<dm, cur, frame>>
          \/ \E id \in ClaimFirst(ev1, now) :
                Apply(Dispatch(ClaimUpdate(ev1, id, workerId, now), dm, id, offset, now))
    /\ UNCHANGED <<now, offset, channel, sent, procUp, env, faultsLeft, missed, busOnlyVars, extVars>>

\* clientReady while the worker loop does not wait
ClientReadyBusy ==
    /\ pc # "wait_ready"
    /\ ClientReady

InitGuard ==
    /\ Fresh
    /\ env = MaxGuardEnv
    /\ faultsLeft = MaxGuardFaults

NextGuard ==
    \/ WorkerIterate
    \/ WorkerWait
    \/ WorkerWaitTimeout
    \/ ClientReadyResume
    \/ ClientReadyBusy
    \/ Disconnect
    \/ \E o \in RetryOutcomes : DmFetchDone(o)
    \/ \E o \in RetryOutcomes : DmEyeDone(o)
    \/ DmAgentDone(1)
    \/ DmCheckDone("ok")
    \/ OutSendDone("ok")
    \/ RecPageDone("ok")
    \/ Crash
    \/ Start
    \/ \E kind \in MessageKinds : UserSend(kind)
    \/ TickToAvailable

SpecGuard == InitGuard /\ [][NextGuard]_vars

\* C28: an event moves from pending or retry to processing only in a step of
\* the worker at whose claim the connection supervisor reports ready; while
\* the supervisor is not ready and stays so, no event is claimed.
C28_ClaimsOnlyWhenReady ==
    [][\A i \in Ids(events) \cup Ids(events') :
          (/\ i \in Ids(events) => events[i].status \in {"pending", "retry"}
           /\ events'[i].status = "processing")
             => ready']_vars

\* the worker waits for the connection while an event could be claimed
C28_Witness ==
    /\ procUp /\ ~ready
    /\ pc = "wait_ready"
    /\ Claimable(events, now) # {}

\* the worker handles a DM that it claimed while the connection was ready
C28_WitnessClaimed ==
    /\ procUp /\ ready
    /\ pc = "dm_fetch"
    /\ events[cur].status = "processing"

-----------------------------------------------------------------------------
(* SpecLong: handlers that may run longer than the stale-lock timeout: the *)
(* clock passes locked_at + STALE_LOCK_TIMEOUT_MS of the event in hand      *)
(* while one of the handler's awaited calls is pending.                     *)

MaxLongEnv == 2
MaxLongFaults == 1

\* the awaited call of the running handler outlasts the stale-lock timeout
HandlerOverrun ==
    /\ procUp /\ pc # "idle" /\ cur # 0
    /\ now <= events[cur].locked_at + STALE_LOCK_TIMEOUT_MS
    /\ now' = events[cur].locked_at + STALE_LOCK_TIMEOUT_MS + 1
    /\ UNCHANGED <<events, daemonVars, busOnlyVars, extVars>>

InitLong ==
    /\ Fresh
    /\ env = MaxLongEnv
    /\ faultsLeft = MaxLongFaults

NextLong ==
    \/ WorkerIterate
    \/ HandlerOverrun
    \/ \E o \in CallOutcomes : DmFetchDone(o)
    \/ \E o \in CallOutcomes : DmEyeDone(o)
    \/ DmAgentDone(1)
    \/ DmAgentFail
    \/ DmErrReactDone
    \/ \E o \in CallOutcomes : DmCheckDone(o)
    \/ \E o \in CallOutcomes : OutSendDone(o)
    \/ RecPageDone("ok")
    \/ Crash
    \/ Start
    \/ ClientReady
    \/ \E kind \in MessageKinds : UserSend(kind)
    \/ TickToAvailable
    \/ TickToStale

SpecLong == InitLong /\ [][NextLong]_vars

\* the worker of the running process is executing the handler of the event i
C29_InHand(i) == procUp /\ pc # "idle" /\ cur = i

\* C29: while the worker executes the handler of an event, the row of the
\* event keeps its status processing and its lock (it is neither reset by
\* requeueStaleProcessing nor claimed again), however long the handler runs;
\* it leaves processing only in the step in which the handler returns or
\* throws, through markDone, markRetry or markDead.
C29_HeldUntilHandlerReturns ==
    [][\A i \in Ids(events) :
          (C29_InHand(i) /\ procUp')
             => \/ /\ events'[i] = events[i]
                   /\ events[i].status = "processing"
                   /\ C29_InHand(i)'
                \/ /\ pc' = "idle"
                   /\ events[i].status = "processing"
                   /\ events'[i].status \in {"done", "retry", "dead"}]_vars

\* the agent call of a DM is pending and the lock of its event is older than
\* the stale-lock timeout
C29_Witness ==
    /\ procUp
    /\ pc = "dm_agent"
    /\ cur \in Stale(events, STALE_LOCK_TIMEOUT_MS, now)

-----------------------------------------------------------------------------
(* SpecRepublish: the daemon from the moment at which the handler of a live *)
(* DM has failed nineteen times (a state SpecRetry reaches): one more       *)
(* failure uses up the attempts, and the user keeps writing while the       *)
(* gateway connection comes and goes, so that the reconcile runs and the    *)
(* recovery runs both find messages to publish again.                       *)

MaxRepublishEnv == 3

\* the events table after the startup reconcile run and the first recovery
\* run are done and the dm.incoming event of message 1 has failed 19 times
WornOutEvents ==
    LET e1 == publish(<<>>, ReconcileInput("startup", 0), 0).events
        e2 == publish(e1, RecoveryInput("client_ready", 0), 0).events
        e3 == publish(e2, DmIncomingInput(1, "interactive", 20), 0).events
    IN [markDone(markDone(e3, 1), 2) EXCEPT ![3].status = "retry",
                                           ![3].attempt_count = MAX_ATTEMPTS - 1,
                                           ![3].available_at = 843000,
                                           ![3].last_error = "retryable"]

WornOut ==
    /\ events = WornOutEvents
    /\ now = 783000
    /\ dm = <<[NewDmRow EXCEPT !.last_error = "retryable"]>>
    /\ offset = 1
    /\ channel = <<"text">>
    /\ sent = {}
    /\ procUp = TRUE
    /\ ready = TRUE
    /\ pc = "idle"
    /\ cur = 0
    /\ frame = NoFrame
    /\ missed = {}

InitRepublish ==
    /\ WornOut
    /\ BusOff
    /\ env = MaxRepublishEnv
    /\ faultsLeft = 1

NextRepublish ==
    \/ WorkerIterate
    \/ \E o \in RetryOutcomes : DmFetchDone(o)
    \/ DmEyeDone("ok")
    \/ DmAgentDone(1)
    \/ DmCheckDone("ok")
    \/ OutSendDone("ok")
    \/ RecPageDone("ok")
    \/ ClientReady
    \/ Disconnect
    \/ \E kind \in MessageKinds : UserSend(kind)
    \/ ReconcileTimer
    \/ TickToAvailable

SpecRepublish == InitRepublish /\ [][NextRepublish]_vars


\* the rows the step appends to the events table
C30_Published == {i \in Ids(events') : i > Len(events)}

\* enqueueDmIncomingIfIdle(entry, "interactive", 15) of handleReconcileRun
C30_ByReconcile(i) == events'[i].type = "dm.incoming" /\ events'[i].priority = 15

\* enqueueDmIncomingIfIdle(..., "recovery", 5) of handleRecoveryRun
C30_ByRecovery(i) == events'[i].type = "dm.incoming" /\ events'[i].priority = 5

C30_WitnessRecovery ==
    \E i \in Ids(events) : events[i].type = "dm.incoming" /\ events[i].priority = 5

\* a reconcile run completed while a message had an active dm.incoming event
\* and a row without the eye flag, and published nothing for it
C30_WitnessSkippedActive ==
    \E i, j \in Ids(events) :
        /\ events[i].type = "dm.reconcile.run" /\ events[i].status = "done"
        /\ events[j].type = "dm.incoming" /\ events[j].status = "retry"
        /\ events[j].created_at < events[i].created_at
        /\ events[j].payload.messageId \in DOMAIN dm
        /\ ~dm[events[j].payload.messageId].eye_applied

-----------------------------------------------------------------------------
(* SpecSkip: the daemon with a store that may reject the publish of the    *)
(* messageCreate callback, and a gateway connection that comes and goes.   *)

MaxSkipEnv == 3
MaxSkipFaults == 1

InitSkip ==
    /\ Fresh
    /\ env = MaxSkipEnv
    /\ faultsLeft = MaxSkipFaults

NextSkip ==
    \/ WorkerIterate
    \/ DmFetchDone("ok")
    \/ DmEyeDone("ok")
    \/ DmAgentDone(1)
    \/ DmCheckDone("ok")
    \/ OutSendDone("ok")
    \/ RecPageDone("ok")
    \/ Start
    \/ ClientReady
    \/ Disconnect
    \/ \E kind \in MessageKinds : UserSend(kind)
    \/ \E kind \in MessageKinds : UserSendStoreDown(kind)

SpecSkip == InitSkip /\ [][NextSkip]_vars

\* the step delivers a processable message to the callback of a connected
\* daemon and leaves it without a dm.incoming event: the publish failed
C31_PublishFailed ==
    /\ procUp /\ ready
    /\ Len(channel') = Len(channel) + 1
    /\ canProcessMessage(channel'[Len(channel')])
    /\ \A i \in Ids(events') :
          ~(events'[i].type = "dm.incoming" /\ events'[i].payload.messageId = Len(channel'))

C31_WitnessKept ==
    /\ faultsLeft = 0
    /\ Len(channel) = 2
    /\ offset = 1
    /\ procUp /\ ready
    /\ ~Enqueued(2)

-----------------------------------------------------------------------------
(* SpecDm: the operations of the store on the dm_messages table, called in *)
(* any order on any message id, seen before or not.                        *)

MaxDmMessages == 2

DmMessageIds == 1..MaxDmMessages
DmErrors == {"retryable", "terminal"}

DmRest == UNCHANGED <<events, now, offset, channel, sent, procUp, ready, pc, cur, frame, env,
                      faultsLeft, missed, busOnlyVars, extVars>>

DmUpsert(m) == dm' = upsertDmMessage(dm, m) /\ DmRest
DmMarkEye(m) == dm' = markEyeApplied(dm, m) /\ DmRest
DmMarkProcessingDone(m) == dm' = markProcessingDone(dm, m) /\ DmRest
DmMarkCheck(m) == dm' = markCheckApplied(dm, m) /\ DmRest
DmMarkTerminalFailure(m, err) == dm' = markDmTerminalFailure(dm, m, err) /\ DmRest
DmSetLastError(m, err) == dm' = setDmLastError(dm, m, err) /\ DmRest

InitDm ==
    /\ StoreOff
    /\ ExtOff

NextDm ==
    \E m \in DmMessageIds :
        \/ DmUpsert(m)
        \/ DmMarkEye(m)
        \/ DmMarkProcessingDone(m)
        \/ DmMarkCheck(m)
        \/ \E err \in DmErrors : DmMarkTerminalFailure(m, err)
        \/ \E err \in DmErrors : DmSetLastError(m, err)

SpecDm == InitDm /\ [][NextDm]_vars

\* C32: no operation on the dm_messages table removes a row or changes
\* eye_applied, processing_done, check_applied or terminal_failed of a row
\* from true back to false.
C32_FlagsMonotone ==
    [][\A m \in DOMAIN dm :
          /\ m \in DOMAIN dm'
          /\ dm[m].eye_applied => dm'[m].eye_applied
          /\ dm[m].processing_done => dm'[m].processing_done
          /\ dm[m].check_applied => dm'[m].check_applied
          /\ dm[m].terminal_failed => dm'[m].terminal_failed]_vars

\* a row has its four flags set and carries an error recorded after the last
\* mark (every mark but markDmTerminalFailure clears last_error), next to a
\* row that is still new
C32_Witness ==
    /\ DOMAIN dm = {1, 2}
    /\ dm[1].eye_applied /\ dm[1].processing_done
    /\ dm[1].check_applied /\ dm[1].terminal_failed
    /\ dm[1].last_error = "retryable"
    /\ dm[2] = NewDmRow

-----------------------------------------------------------------------------
(* SpecInert: the daemon with a process that may die between                *)
(* markCheckApplied and the worker loop's markDone, and a platform whose    *)
(* calls may fail terminally (a message deleted by the user).               *)

MaxInertEnv == 2
MaxInertFaults == 1

\* the process dies in handleDmIncoming after message.react(CHECK_EMOJI) and
\* markCheckApplied, before the worker loop's markDone: the DM row is
\* check_applied, the event keeps its lock
CrashAfterCheckMark ==
    /\ procUp /\ pc = "dm_check"
    /\ EnvStep
    /\ dm' = markCheckApplied(dm, CurMessage)
    /\ procUp' = FALSE /\ ready' = FALSE
    /\ pc' = "idle" /\ cur' = 0 /\ frame' = NoFrame
    /\ UNCHANGED <<events, now, offset, channel, sent, faultsLeft, missed, busOnlyVars, extVars>>

InitInert ==
    /\ Fresh
    /\ env = MaxInertEnv
    /\ faultsLeft = MaxInertFaults

NextInert ==
    \/ WorkerIterate
    \/ \E o \in CallOutcomes : DmFetchDone(o)
    \/ \E o \in CallOutcomes : DmEyeDone(o)
    \/ DmAgentDone(1)
    \/ DmAgentFail
    \/ DmErrReactDone
    \/ \E o \in CallOutcomes : DmCheckDone(o)
    \/ \E o \in CallOutcomes : OutSendDone(o)
    \/ RecPageDone("ok")
    \/ Crash
    \/ CrashAfterCheckMark
    \/ CrashAfterTerminalMark
    \/ Start
    \/ ClientReady
    \/ \E kind \in MessageKinds : UserSend(kind)
    \/ ReconcileTimer
    \/ TickToAvailable
    \/ TickToStale

SpecInert == InitInert /\ [][NextInert]_vars

-----------------------------------------------------------------------------
(* C33: rows of dm_messages that have reached check_applied or             *)
(* terminal_failed, under SpecInert.                                       *)

C33_Flags(row) ==
    <<row.eye_applied, row.processing_done, row.check_applied, row.terminal_failed>>

\* C33 (as claimed): once check_applied or terminal_failed of a DM row is
\* true, no flag of the row changes any more, whatever events of its
\* message are dispatched again.
C33_InertOnceSettled ==
    [][\A m \in DOMAIN dm :
          (dm[m].check_applied \/ dm[m].terminal_failed)
             => C33_Flags(dm'[m]) = C33_Flags(dm[m])]_vars

\* a row that is terminal_failed keeps its four flags, and a row that is
\* check_applied keeps the three flags of its successful handling
C33_SettledFlagsKept ==
    [][\A m \in DOMAIN dm :
          /\ dm[m].terminal_failed => C33_Flags(dm'[m]) = C33_Flags(dm[m])
          /\ dm[m].check_applied =>
                /\ dm'[m].eye_applied = dm[m].eye_applied
                /\ dm'[m].processing_done = dm[m].processing_done
                /\ dm'[m].check_applied]_vars

\* a row carries both check_applied and terminal_failed
C33_WitnessBoth ==
    \E m \in DOMAIN dm : dm[m].check_applied /\ dm[m].terminal_failed

-----------------------------------------------------------------------------
(* C34: reconnect requests that arrive while a reconnect loop runs          *)
(* (SpecConn).                                                              *)

\* what the running reconnect loop owns: its position, its attempt counter,
\* the force flag of its cycle, the marker, and the client it destroys and
\* logs in
C34_LoopState(c) ==
    <<c.loopPc, c.attempt, c.forceCurrentCycle, c.reconnectPromise, c.ready, c.connecting>>

\* the step calls requestReconnect from outside the reconnect loop
C34_RequestStep ==
    \/ ShardDisconnectEvent
    \/ ClientErrorEvent /\ ~conn.ready
    \/ StartLoginSettle(FALSE)
    \/ WaitTimeout("start") /\ "start" \in conn.waiters

\* the step is a continuation of the reconnect loop itself
C34_LoopStep ==
    \/ LoopWaitDone
    \/ \E ok \in BOOLEAN : LoopLoginSettle(ok)
    \/ "loop" \in conn.waiters /\ (WaitTimeout("loop") \/ ClientReadyEvent \/ ConnStop)

\* C34: at most one reconnect loop runs at any time: while a loop is running
\* reconnectPromise is set, a reconnect request that arrives starts no
\* second loop and only records its reason and force flag for the running
\* loop (nothing at all once the supervisor is stopping), and the position
\* of the loop (its wait, its destroy and login, its grace period) moves only
\* in the loop's own continuations.
C34_SingleLoop ==
    /\ [](conn.loopPc # "none" => conn.reconnectPromise)
    /\ [][conn.loopPc # "none" =>
            /\ C34_RequestStep =>
                  /\ C34_LoopState(conn') = C34_LoopState(conn)
                  /\ conn'.reconnectReason = (conn.reconnectReason \/ ~conn.stopping)
                  /\ conn'.forceReconnectRequested = conn.forceReconnectRequested
            /\ conn'.loopPc # conn.loopPc => C34_LoopStep]_vars

\* C34 witness: a request was recorded while the loop waits for its login
\* or for ready
C34_Witness ==
    /\ conn.loopPc \in {"login", "grace"}
    /\ ~conn.stopping
    /\ conn.reconnectPromise
    /\ conn.reconnectReason

\* C34 witness: a request was recorded while the loop waits out its delay
C34_WitnessWait ==
    /\ conn.loopPc = "wait"
    /\ conn.reconnectReason

-----------------------------------------------------------------------------
(* C35: reconnectPromise and the reconnect loop (SpecConn).                 *)

\* C35 (as claimed): reconnectPromise is set only while a reconnect loop is
\* executing: whenever no loop is running it is null, also after a
\* requestReconnect made while the client is ready, whose loop ends without
\* reaching an await.
C35_MarkerOnlyWhileLooping ==
    conn.reconnectPromise => conn.loopPc # "none"

\* a loop that has reached an await clears reconnectPromise when it ends
\* without starting a next loop: reconnectPromise stays set with no loop
\* running only after a requestReconnect whose loop ended before its first
\* await
C35_ClearedByFinally ==
    [][(conn.loopPc # "none" /\ conn'.loopPc = "none") => ~conn'.reconnectPromise]_vars

\* reconnectPromise is set with no loop running, the client is not ready and
\* the supervisor is not stopping
C35_WitnessDangling ==
    /\ conn.reconnectPromise /\ conn.loopPc = "none"
    /\ ~conn.ready /\ ~conn.stopping /\ conn.startPc = "done"

-----------------------------------------------------------------------------
(* C36: the delay before the login of a reconnect attempt (SpecConn).       *)

\* runReconnectLoop: delayMs of an attempt
reconnectWaitMs(attempt) ==
    IF attempt <= 1 THEN 0 ELSE calculateReconnectDelayMs(attempt)

\* the step has the reconnect loop destroy the client and call login
C36_LoginStarted ==
    /\ conn'.loopPc = "login"
    /\ conn.loopPc # "login" \/ LoopLoginSettle(FALSE)

\* C36 (as claimed): every attempt of the reconnect loop, the first one
\* after a ready period included, waits its delay of at least 1000 ms before
\* it destroys the client and calls login: a login of the loop starts only
\* at the end of a wait.
C36_EveryAttemptWaits ==
    [][C36_LoginStarted => conn.loopPc = "wait" /\ LoopWaitDone]_vars

\* the attempt counter stays within 0..10; the wait of the loop is entered
\* for attempts 2 and later only, for reconnect_delay_ms(attempt) >= 2000
\* ms; a login that starts without a wait is the one of attempt 1
C36_WaitsFromSecondAttempt ==
    /\ [](conn.attempt \in 0..MAX_RECONNECT_ATTEMPT)
    /\ [][/\ (conn'.loopPc = "wait" /\ conn.loopPc # "wait")
                => /\ conn'.attempt >= 2
                   /\ reconnectWaitMs(conn'.attempt) = calculateReconnectDelayMs(conn'.attempt)
                   /\ reconnectWaitMs(conn'.attempt) >= 2 * INITIAL_RECONNECT_DELAY_MS
          /\ (C36_LoginStarted /\ conn.loopPc # "wait")
                => conn'.attempt = 1 /\ reconnectWaitMs(conn'.attempt) = 0]_vars

\* the loop awaits the login of its first attempt, started in the step of
\* the request
C36_WitnessUndelayed ==
    conn.loopPc = "login" /\ conn.attempt = 1 /\ ~conn.stopping

\* the loop waits out the delay of a later attempt
C36_WitnessDelayed ==
    conn.loopPc = "wait" /\ conn.attempt >= 2

-----------------------------------------------------------------------------
(* C37: logins after stop() or the client's invalidated event (SpecConn).   *)

\* the step calls client.login: in start(), or in the reconnect loop
C37_LoginCalled ==
    \/ conn'.startPc = "login" /\ conn.startPc # "login"
    \/ C36_LoginStarted

\* C37: after the supervisor is stopped, or the client reports invalidated,
\* stopping stays set and no login call is started any more, neither by the
\* reconnect loop, nor by the follow-up of the initial login, nor by the
\* heartbeat, whatever reconnect was pending or in flight at that moment.
C37_NoLoginAfterStop ==
    [][conn.stopping =>
          /\ conn'.stopping
          /\ ~C37_LoginCalled
          /\ (conn.loopPc = "none" => conn'.loopPc = "none")]_vars

\* C37 witness: the supervisor was stopped while the reconnect loop waited
\* out the delay of an attempt that a recorded request had asked for
C37_Witness ==
    /\ conn.stopping
    /\ conn.loopPc = "wait"
    /\ conn.reconnectPromise

\* C37 witness: the supervisor was stopped, the loop that was in flight has
\* ended without a login and has cleared reconnectPromise
C37_WitnessEnded ==
    /\ conn.stopping
    /\ conn.loopPc = "none" /\ ~conn.reconnectPromise
    /\ conn.attempt >= 2
    /\ ~conn.ready

-----------------------------------------------------------------------------
(* SpecSandbox: runClaudeCommand and ensureClaudeSandbox of                 *)
(* claude-adapter.ts, called by one caller at a time (runQueue).  A step is *)
(* the exit of a child process (docker sandbox run, the listing and removal *)
(* of sandboxes, the agent CLI) with the code that follows it up to the     *)
(* next spawn.  Operators take and return the record `claude`.              *)

MaxClaudeCalls == 2
MaxCreations == 3
MaxRuns == 3

\* the id docker prints for a sandbox it created
NewSandboxId == 1

\* how the agent CLI can exit non-zero: its message matches
\* SANDBOX_GONE_PATTERNS, holds "No conversation found with session ID",
\* both, or neither
ClaudeErrors == {"gone", "nosession", "both", "other"}

isSandboxGoneError(message) == message \in {"gone", "both"}

NoConversationFound(message) == message \in {"nosession", "both"}

clearSandboxId(c) == [c EXCEPT !.cachedSandboxId = 0, !.diskSandboxId = 0]

clearSession(c) == [c EXCEPT !.session = FALSE]

\* ensureClaudeSandbox: memory cache, then disk, then docker sandbox run;
\* up to the spawn of docker sandbox run, or to the return of an id
ensureClaudeSandbox(c) ==
    IF c.cachedSandboxId # 0 THEN [c EXCEPT !.pc = "ensured"]
    ELSE IF c.diskSandboxId # 0
         THEN [c EXCEPT !.cachedSandboxId = c.diskSandboxId, !.pc = "ensured"]
         ELSE [c EXCEPT !.pc = "create", !.creations = @ + 1]

\* runClaudeCommand: Bun.spawn of the agent CLI
spawnClaude(c) == [c EXCEPT !.pc = "cli", !.runs = @ + 1]

\* runClaudeCommand, from its call to its first spawn
runClaudeCommand(c, retried) ==
    LET c1 == [c EXCEPT !.retried = retried, !.sessionId = c.session, !.creations = 0] IN
    IF ~c1.enableSandbox THEN spawnClaude(c1)
    ELSE LET c2 == ensureClaudeSandbox(c1) IN
         IF c2.pc = "ensured" THEN spawnClaude(c2) ELSE c2

\* a retry test that does not look at `retried`
retryKind_IgnoreRetried(c, message) ==
    IF c.enableSandbox /\ isSandboxGoneError(message) THEN "sandbox"
    ELSE IF c.sessionId /\ NoConversationFound(message) THEN "session"
    ELSE "none"

\* runClaudeCommand: the two tests made on a non-zero exit of the agent CLI
retryKind(c, message) ==
    IF c.enableSandbox /\ ~c.retried /\ isSandboxGoneError(message) THEN "sandbox"
    ELSE IF c.sessionId /\ ~c.retried /\ NoConversationFound(message) THEN "session"
    ELSE "none"

ClaudeRest == UNCHANGED <<events, now, daemonVars, busOnlyVars, offsetVars, fifoVars, connVars,
                          mainSession, directSent, wrap, fmt, delays>>

\* runQueue calls runClaudeCommand for a job
ClaudeCall ==
    /\ claude.pc \in {"none", "done"}
    /\ claude.calls < MaxClaudeCalls
    /\ claude' = runClaudeCommand([claude EXCEPT !.calls = @ + 1, !.runs = 0,
                                                 !.error = "none", !.result = "none"],
                                  FALSE)
    /\ ClaudeRest

\* ensureClaudeSandbox: docker sandbox run exits: with the id of the new
\* sandbox, with the credentials conflict (a sandbox of this workspace
\* exists), or with another error
SandboxRunDone(outcome) ==
    /\ claude.pc = "create"
    /\ outcome = "conflict" => claude.conflicting
    /\ claude' =
          CASE outcome = "id" ->
                 spawnClaude([claude EXCEPT !.cachedSandboxId = NewSandboxId,
                                            !.diskSandboxId = NewSandboxId])
            [] outcome = "conflict" -> [claude EXCEPT !.pc = "find"]
            [] OTHER -> [claude EXCEPT !.pc = "done", !.result = "rejected"]
    /\ ClaudeRest

\* ensureClaudeSandbox after a conflict: findSandboxForWorkspace returns
\* the conflicting sandbox or null (the listing failed, no workspace
\* matched), removeSandbox removes it or only warns, and
\* ensureClaudeSandbox is called again
SandboxFindDone(found, removed) ==
    /\ claude.pc = "find"
    /\ claude.creations < MaxCreations
    /\ claude' = ensureClaudeSandbox([claude EXCEPT !.conflicting = ~(found /\ removed)])
    /\ ClaudeRest

\* runClaudeCommand: the agent CLI exits with code 0 and a parsable answer
ClaudeExitOk ==
    /\ claude.pc = "cli"
    /\ claude' = [claude EXCEPT !.pc = "done", !.error = "ok", !.result = "resolved",
                                !.session = TRUE]
    /\ ClaudeRest

\* runClaudeCommand: the agent CLI exits non-zero with `message`
ClaudeExitError(message) ==
    /\ claude.pc = "cli"
    /\ claude.runs < MaxRuns
    /\ claude' =
          LET c == [claude EXCEPT !.error = message]
              kind == retryKind(c, message) IN
          CASE kind = "sandbox" -> runClaudeCommand(clearSession(clearSandboxId(c)), TRUE)
            [] kind = "session" -> runClaudeCommand(clearSession(c), TRUE)
            [] OTHER -> [c EXCEPT !.pc = "done", !.result = "rejected"]
    /\ ClaudeRest

InitSandbox ==
    /\ StoreOff
    /\ OffsetOff
    /\ FifoOff
    /\ ConnOff
    /\ wrap = NoWrap
    /\ mainSession = FALSE
    /\ directSent = <<>>
    /\ fmt = NoSend
    /\ delays = NoDelays
    /\ \E sandbox \in BOOLEAN, disk \in {0, NewSandboxId}, session \in BOOLEAN,
          conflict \in BOOLEAN :
           claude = [NoClaude EXCEPT !.enableSandbox = sandbox, !.diskSandboxId = disk,
                                     !.session = session, !.conflicting = conflict]

NextSandbox ==
    \/ ClaudeCall
    \/ \E outcome \in {"id", "conflict", "error"} : SandboxRunDone(outcome)
    \/ \E found \in BOOLEAN, removed \in BOOLEAN : SandboxFindDone(found, removed)
    \/ ClaudeExitOk
    \/ \E message \in ClaudeErrors : ClaudeExitError(message)

SpecSandbox == InitSandbox /\ [][NextSandbox]_vars

\* C38 (as claimed): after a credentials conflict ensureClaudeSandbox
\* removes the conflicting sandbox and retries the creation once: one call
\* makes at most two creation attempts, also when the conflict persists or
\* no conflicting sandbox is found.
C38_AtMostTwoCreations == claude.creations <= 2

\* a creation is attempted again only after a credentials conflict, and
\* without a limit: the attempt after a conflict is made whatever the number
\* of attempts before it
C38_RetriedAfterEveryConflict ==
    [][/\ claude'.creations > claude.creations /\ claude.creations > 0
          => claude.pc = "find"
       /\ (claude.pc = "find" /\ claude' # claude)
          => claude'.pc = "create" /\ claude'.creations = claude.creations + 1]_vars

\* a third docker sandbox run of one ensureClaudeSandbox call is in flight
C38_WitnessThird ==
    claude.pc = "create" /\ claude.creations = 3 /\ claude.conflicting

\* the conflicting sandbox was removed and the second creation gave the id
C38_WitnessRecovered ==
    /\ claude.creations = 2 /\ ~claude.conflicting
    /\ claude.cachedSandboxId = NewSandboxId /\ claude.diskSandboxId = NewSandboxId
    /\ claude.pc = "cli"

-----------------------------------------------------------------------------
(* C39: the retry of runClaudeCommand (SpecSandbox).                        *)

\* the step is a non-zero exit of the agent CLI with message claude'.error
C39_Failed ==
    claude.pc = "cli" /\ claude' # claude /\ claude'.error \in ClaudeErrors

\* C39: one call of runClaudeCommand runs the agent CLI at most twice.  On
\* a sandbox-gone failure of the first run (sandbox mode) the sandbox id is
\* cleared in memory and on disk, the session file is cleared and the
\* command is run once more, through a new ensureClaudeSandbox; on a "No
\* conversation found with session ID" failure of the first run with a
\* stored session the session file is cleared and the command is run once
\* more; every other failure, and every failure of the second run, rejects
\* the call.
C39_RetriedAtMostOnce ==
    /\ [](claude.runs <= 2 /\ (claude.runs = 2 => claude.retried))
    /\ [][C39_Failed =>
            LET message == claude'.error
                gone == claude.enableSandbox /\ isSandboxGoneError(message)
                lost == claude.sessionId /\ NoConversationFound(message) IN
            IF ~claude.retried /\ gone
            THEN /\ claude'.retried /\ claude'.result = "none"
                 /\ claude'.cachedSandboxId = 0 /\ claude'.diskSandboxId = 0
                 /\ ~claude'.session
                 /\ claude'.pc = "create" /\ claude'.runs = 1
            ELSE IF ~claude.retried /\ lost
            THEN /\ claude'.retried /\ claude'.result = "none"
                 /\ ~claude'.session
                 /\ claude'.cachedSandboxId = claude.cachedSandboxId
                 /\ claude'.diskSandboxId = claude.diskSandboxId
                 /\ claude'.pc = "cli" /\ claude'.runs = 2
            ELSE /\ claude'.result = "rejected" /\ claude'.pc = "done"
                 /\ claude'.runs = claude.runs
                 /\ claude'.session = claude.session
                 /\ claude'.cachedSandboxId = claude.cachedSandboxId]_vars

\* C39 witness: the first run failed sandbox-gone, the sandbox was created
\* again, and the second run failed the same way: the call is rejected
C39_Witness ==
    /\ claude.retried /\ claude.runs = 2
    /\ claude.error = "gone" /\ claude.result = "rejected"
    /\ claude.creations = 1

\* C39 witness: the second run, made after a lost session, has answered
C39_WitnessSession ==
    /\ claude.retried /\ claude.runs = 2
    /\ claude.error = "ok" /\ claude.result = "resolved"
    /\ claude.creations = 0 /\ ~claude.enableSandbox

\* C39 witness: the retry after a sandbox-gone failure is rejected without a
\* second run, by docker sandbox run
C39_WitnessNoSandbox ==
    /\ claude.retried /\ claude.runs = 1
    /\ claude.error = "gone" /\ claude.result = "rejected"

-----------------------------------------------------------------------------
(* SpecExpiry: the daemon with scheduler triggers that wait in the queue    *)
(* (process down, gateway not ready, handler busy, retry) while the clock   *)
(* reaches their expiresAt.                                                 *)

MaxExpiryEnv == 3
MaxExpiryFaults == 1

\* the clock reaches expiresAt + d of a trigger that waits while the worker
\* loop cannot claim it
TickToExpiry(d) ==
    /\ ~procUp \/ ~ready \/ pc # "idle"
    /\ LET due == {events[i].payload.expiresAt + d : i \in {j \in Ids(events) :
                       /\ events[j].type = "scheduler.triggered"
                       /\ events[j].status \in {"pending", "retry"}
                       /\ events[j].payload.expiresAt + d > now}}
       IN due # {} /\ now' = SetMin(due)
    /\ UNCHANGED <<events, daemonVars, busOnlyVars, extVars>>

InitExpiry ==
    /\ Fresh
    /\ env = MaxExpiryEnv
    /\ faultsLeft = MaxExpiryFaults

NextExpiry ==
    \/ WorkerIterate
    \/ SchedulerFire
    \/ \E chunks \in {0, 1} : SchedAgentDone(chunks)
    \/ SchedAgentFail
    \/ OutSendDone("ok")
    \/ RecPageDone("ok")
    \/ Crash
    \/ Start
    \/ ClientReady
    \/ Disconnect
    \/ TickToAvailable
    \/ TickToStale
    \/ \E d \in {-1, 0} : TickToExpiry(d)

SpecExpiry == InitExpiry /\ [][NextExpiry]_vars

\* the step has the worker loop dispatch the scheduler.triggered event i
C40_Dispatched(i) ==
    /\ events[i].type = "scheduler.triggered"
    /\ procUp /\ pc = "idle"
    /\ events[i].status \notin {"done", "dead"}
    /\ cur' = i \/ events'[i].status = "done"

\* the row published last in the step, if it is the outbound request of a
\* schedule
C40_OutboundPublished ==
    /\ Len(events') > Len(events)
    /\ events'[Len(events')].type = "outbound.dm.request"
    /\ events'[Len(events')].payload.source = "scheduler"

\* C40: a scheduler.triggered event dispatched at or after its expiresAt
\* (triggeredAt + 15 minutes) is marked done by that dispatch without an
\* agent run and without a published event; the agent is run, and an
\* outbound request published, only for a trigger that was dispatched
\* before its expiresAt, however long it waited in the queue or in retry.
C40_ExpiredTriggerRejected ==
    /\ [](\A i \in Ids(events) : events[i].type = "scheduler.triggered" =>
              events[i].payload.expiresAt = events[i].payload.triggeredAt + 15 * 60 * 1000)
    /\ [](pc = "sched_agent" => events[cur].locked_at < events[cur].payload.expiresAt)
    /\ [][/\ \A i \in Ids(events) : C40_Dispatched(i) =>
                IF events[i].payload.expiresAt <= now
                THEN /\ events'[i].status = "done"
                     /\ pc' = "idle" /\ cur' = 0
                     /\ Len(events') = Len(events)
                ELSE pc' = "sched_agent" /\ cur' = i
          /\ C40_OutboundPublished =>
                /\ pc = "sched_agent"
                /\ events[cur].locked_at < events[cur].payload.expiresAt]_vars

C40_Triggers == {i \in Ids(events) : events[i].type = "scheduler.triggered"}

C40_NoOutbound == \A i \in Ids(events) : events[i].type # "outbound.dm.request"

\* C40 witness: the only trigger waited until its expiresAt and was marked
\* done at its first dispatch; nothing was published for it
C40_Witness ==
    /\ Cardinality(C40_Triggers) = 1
    /\ \E i \in C40_Triggers :
          /\ events[i].status = "done"
          /\ events[i].attempt_count = 0
          /\ now = events[i].payload.expiresAt
    /\ C40_NoOutbound

\* C40 witness: the trigger failed once before its expiresAt, waited in
\* retry past it and was marked done at its second dispatch
C40_WitnessRetry ==
    /\ Cardinality(C40_Triggers) = 1
    /\ \E i \in C40_Triggers :
          /\ events[i].status = "done"
          /\ events[i].attempt_count = 1
          /\ now >= events[i].payload.expiresAt
    /\ C40_NoOutbound

\* C40 witness: a trigger dispatched one millisecond before its expiresAt
\* has its agent running
C40_WitnessInTime ==
    /\ pc = "sched_agent"
    /\ events[cur].locked_at = events[cur].payload.expiresAt - 1
====
